---- MODULE Spec2Model ----
(***************************************************************************)
(* File-backed record store of the OpenPrintTag database UI editor         *)
(* (ui-editor/src/server/data/fs.ts): slug normalisation, identifier       *)
(* matching, collection reading, the read / write / delete operations on   *)
(* the directory of an entity type (dir, the brands), the operations on an *)
(* entity type nested by brand (nested), the location of the directories   *)
(* (roots), the lookup tables (lookup) and the serializer; then the three  *)
(* creation routes (routes/api) on the directories of their entity type    *)
(* (category), and two requests in progress at once (calls).               *)
(*                                                                         *)
(* Encoding of JavaScript values:                                          *)
(*   - a string is a tuple of one-character strings, <<"a", "b">>;         *)
(*   - null and undefined are the tuples JNull and JUndefined, which hold  *)
(*     a multi-character element and so differ from every string;          *)
(*   - a document (a parsed YAML mapping) is a function from field names   *)
(*     to values; a field that is absent is not in its DOMAIN.             *)
(***************************************************************************)
EXTENDS Integers, Sequences, FiniteSets, TLC

VARIABLES dir, nested, roots, lookup, op, pre, preNested, preRoots, result,
          calls, category

vars ==
  <<dir, nested, roots, lookup, op, pre, preNested, preRoots, result, calls,
    category>>

----------------------------------------------------------------------------
(* JavaScript values                                                       *)

JNull == <<"null">>
JUndefined == <<"undefined">>

IsString(v) == v # JNull /\ v # JUndefined

\* obj.field: the value of the field, undefined when the field is absent
Get(obj, field) == IF field \in DOMAIN obj THEN obj[field] ELSE JUndefined

\* String(v)
String(v) ==
  IF v = JNull THEN <<"n", "u", "l", "l">>
  ELSE IF v = JUndefined THEN <<"u", "n", "d", "e", "f", "i", "n", "e", "d">>
  ELSE v

\* !v for a string, null or undefined
Falsy(v) == v = JNull \/ v = JUndefined \/ v = << >>

EmptyDoc == [f \in {} |-> JNull]

\* the entity argument of matchesId when it is null
NullEntity == [f \in {"<null>"} |-> JNull]

\* the object as it is, __file included
StripFile_Keep(obj) == obj

\* { ...obj } without the __file key
StripFile(obj) == [f \in (DOMAIN obj) \ {"__file"} |-> obj[f]]

----------------------------------------------------------------------------
(* Characters                                                              *)

UpperChars ==
  <<"A", "B", "C", "D", "E", "F", "G", "H", "I", "J", "K", "L", "M",
    "N", "O", "P", "Q", "R", "S", "T", "U", "V", "W", "X", "Y", "Z">>

LowerChars ==
  <<"a", "b", "c", "d", "e", "f", "g", "h", "i", "j", "k", "l", "m",
    "n", "o", "p", "q", "r", "s", "t", "u", "v", "w", "x", "y", "z">>

DigitChars == {"0", "1", "2", "3", "4", "5", "6", "7", "8", "9"}

\* \s of the regular expressions
SpaceChars == {" ", "\t", "\n"}

\* the precomposed letter e-acute (U+00E9) and its upper case (U+00C9)
EAcute == "e-acute"
UpperEAcute == "E-acute"

\* the combining acute accent U+0301, one of the marks U+0300 to U+036F
CombiningAcute == "u0301"

CombiningMarks == {CombiningAcute}

LowerSet == {LowerChars[i] : i \in 1..26}

UpperSet == {UpperChars[i] : i \in 1..26}

LowerOf == [c \in UpperSet |-> LowerChars[CHOOSE i \in 1..26 : UpperChars[i] = c]]

ToLowerChar(c) ==
  IF c \in UpperSet THEN LowerOf[c]
  ELSE IF c = UpperEAcute THEN EAcute
  ELSE c

toLowerCase(s) == [i \in 1..Len(s) |-> ToLowerChar(s[i])]

\* String.prototype.normalize('NFKD') on one character
DecomposeChar(c) ==
  IF c = EAcute THEN <<"e", CombiningAcute>>
  ELSE IF c = UpperEAcute THEN <<"E", CombiningAcute>>
  ELSE <<c>>

RECURSIVE NFKD(_)
NFKD(s) == IF s = << >> THEN << >> ELSE DecomposeChar(Head(s)) \o NFKD(Tail(s))

RECURSIVE DropWhileIn(_, _)
DropWhileIn(s, class) ==
  IF s # << >> /\ Head(s) \in class THEN DropWhileIn(Tail(s), class) ELSE s

Reverse(s) == [i \in 1..Len(s) |-> s[Len(s) + 1 - i]]

\* String.prototype.trim
trim(s) == Reverse(DropWhileIn(Reverse(DropWhileIn(s, SpaceChars)), SpaceChars))

\* s.replace(/[class]+/g, rep): every maximal run of class characters
\* becomes the one character rep
RECURSIVE ReplaceRuns(_, _, _)
ReplaceRuns(s, class, rep) ==
  IF s = << >> THEN << >>
  ELSE IF Head(s) \in class
    THEN <<rep>> \o ReplaceRuns(DropWhileIn(Tail(s), class), class, rep)
  ELSE <<Head(s)>> \o ReplaceRuns(Tail(s), class, rep)

\* s.replace(/[^a-z0-9\s-]/g, '')
KeptBySlug(c) == c \in LowerSet \/ c \in DigitChars \/ c \in SpaceChars \/ c = "-"

DropPunctuation(s) == SelectSeq(s, KeptBySlug)

NotCombining(c) == c \notin CombiningMarks

\* the try block of slugifyName
SlugOfDecomposed(input) ==
  LET withNoDiacritics == SelectSeq(NFKD(input), NotCombining)
      lowered == toLowerCase(withNoDiacritics)
      trimmed == trim(lowered)
      dropped == DropPunctuation(trimmed)
      hyphened == ReplaceRuns(dropped, SpaceChars \cup {"_"}, "-")
  IN  ReplaceRuns(hyphened, {"-"}, "-")

\* the catch block of slugifyName
SlugFallback(input) ==
  ReplaceRuns(ReplaceRuns(toLowerCase(input), SpaceChars \cup {"_"}, "-"),
              {"-"}, "-")

\* a try block that leaves the '-+' replacement out
SlugOn_KeepHyphenRuns(normalizeThrows, input) ==
  IF Falsy(input) THEN JNull
  ELSE IF normalizeThrows THEN SlugFallback(input)
  ELSE ReplaceRuns(DropPunctuation(trim(toLowerCase(
         SelectSeq(NFKD(input), NotCombining)))), SpaceChars \cup {"_"}, "-")

\* slugifyName on a runtime whose String.prototype.normalize throws
\* (normalizeThrows) or works
SlugOn(normalizeThrows, input) ==
  IF Falsy(input) THEN JNull
  ELSE IF normalizeThrows THEN SlugFallback(input)
  ELSE SlugOfDecomposed(input)

\* slugifyName where String.prototype.normalize works
slugifyName(input) == SlugOn(FALSE, input)

----------------------------------------------------------------------------
(* File names                                                              *)

EndsWith(s, suffix) ==
  /\ Len(s) >= Len(suffix)
  /\ SubSeq(s, Len(s) - Len(suffix) + 1, Len(s)) = suffix

DropLast(s, n) == SubSeq(s, 1, Len(s) - n)

ExtYaml == <<".", "y", "a", "m", "l">>
ExtYml == <<".", "y", "m", "l">>

\* /\.ya?ml$/i.test(f)
IsYamlName(f) ==
  LET lower == toLowerCase(f)
  IN  EndsWith(lower, ExtYaml) \/ EndsWith(lower, ExtYml)

\* f.replace(/\.(ya?ml)$/i, '')
StripYamlExt(f) ==
  LET lower == toLowerCase(f)
  IN  IF EndsWith(lower, ExtYaml) THEN DropLast(f, Len(ExtYaml))
      ELSE IF EndsWith(lower, ExtYml) THEN DropLast(f, Len(ExtYml))
      ELSE f

----------------------------------------------------------------------------
(* Entity Matcher                                                          *)

\* a matcher that compares the uuid without String()
matchesId_RawUuid(entity, id) ==
  IF entity = NullEntity \/ Falsy(id) THEN FALSE
  ELSE
    LET fileStem ==
          IF IsString(Get(entity, "__file"))
            THEN StripYamlExt(entity["__file"])
          ELSE JUndefined
        nameSlug == slugifyName(Get(entity, "name"))
    IN  \/ Get(entity, "slug") = id
        \/ fileStem = id
        \/ nameSlug = id
        \/ Get(entity, "uuid") = id

matchesId(entity, id) ==
  IF entity = NullEntity \/ Falsy(id) THEN FALSE
  ELSE
    LET fileStem ==
          IF IsString(Get(entity, "__file"))
            THEN StripYamlExt(entity["__file"])
          ELSE JUndefined
        nameSlug == slugifyName(Get(entity, "name"))
    IN  \/ Get(entity, "slug") = id
        \/ fileStem = id
        \/ nameSlug = id
        \/ String(Get(entity, "uuid")) = id

----------------------------------------------------------------------------
(* The directory of one entity type.                                       *)
(*                                                                         *)
(* dir.exists  : findEntityDir locates the directory                       *)
(* dir.entries : what fs.readdir lists, in the order it lists it; each     *)
(*               entry has a name, a kind ("file": a regular file that     *)
(*               can be read, written and unlinked; "dir": a subdirectory, *)
(*               on which readFile, writeFile and unlink all fail while    *)
(*               fs.access succeeds; "locked": a regular file that can be  *)
(*               read while writeFile and unlink fail, as on a read-only   *)
(*               filesystem) and, for a file, its text.  A text is kept as *)
(*               the document it encodes (its body).                       *)

Names(d) == {d.entries[i].name : i \in 1..Len(d.entries)}

IndexOf(d, name) == CHOOSE i \in 1..Len(d.entries) : d.entries[i].name = name

EntryOf(d, name) == d.entries[IndexOf(d, name)]

\* fs.readFile succeeds on an entry of this kind
Readable(kind) == kind \in {"file", "locked"}

\* fs.writeFile and fs.unlink succeed on an entry of this kind
Writable(kind) == kind = "file"

\* "file", "locked", "dir" or "missing"
KindOf(d, name) == IF name \in Names(d) THEN EntryOf(d, name).kind ELSE "missing"

\* parseYaml(content): the document a text encodes
parseYaml(content) == content.body

\* stringifyYaml(obj): the text that encodes a document
stringifyYaml(obj) == [body |-> obj]

\* The characters of the text stringifyYaml returns.  lib is what the
\* import of 'yaml' gives: "stringify" when the module has a stringify
\* function that returns, "unavailable" when the import fails or the module
\* has no such function, "throws" when stringify throws; produced is the
\* string the path taken works on, the return value of mod.stringify or of
\* JSON.stringify(obj, null, 2).

\* '# NOTE: YAML library unavailable at runtime, writing JSON-like content
\* as a fallback.\n'
FallbackHeader ==
  <<"#", " NOTE: YAML library unavailable at runtime, writing JSON-like content as a fallback.",
    "\n">>

\* result.endsWith('\n')
EndsWithNewline(t) == t # << >> /\ t[Len(t)] = "\n"

\* a serializer without the final `result += '\n'`
stringifyYamlText_NoAppend(lib, produced) ==
  IF lib = "stringify" THEN produced ELSE FallbackHeader \o produced

stringifyYamlText(lib, produced) ==
  LET text == IF lib = "stringify" THEN produced
              ELSE FallbackHeader \o produced
  IN  IF ~EndsWithNewline(text) THEN text \o <<"\n">> ELSE text

\* ReadOptions.fileFilter and ReadOptions.validate: absent ("none") or one
\* of the caller's predicates
FileFilter(opts, f) ==
  IF opts.fileFilter = "none" THEN TRUE ELSE EndsWith(f, ExtYaml)

Validate(opts, parsed) ==
  IF opts.validate = "none" THEN TRUE ELSE "slug" \in DOMAIN parsed

NoOpts == [fileFilter |-> "none", validate |-> "none"]

\* a loop that gives up at the first file it cannot read
RECURSIVE ReadFiles_Abort(_, _)
ReadFiles_Abort(entries, opts) ==
  IF entries = << >> THEN << >>
  ELSE
    LET e == Head(entries)
        rest == ReadFiles_Abort(Tail(entries), opts)
    IN  IF ~Readable(e.kind) THEN << >>
        ELSE IF ~Validate(opts, parseYaml(e.text)) THEN rest
        ELSE <<parseYaml(e.text) @@ ("__file" :> e.name)>> \o rest

\* the loop of getEntityFiles over the retained file names
RECURSIVE ReadFiles(_, _)
ReadFiles(entries, opts) ==
  IF entries = << >> THEN << >>
  ELSE
    LET e == Head(entries)
        rest == ReadFiles(Tail(entries), opts)
    IN  IF ~Readable(e.kind) THEN rest
        ELSE IF ~Validate(opts, parseYaml(e.text)) THEN rest
        ELSE <<parseYaml(e.text) @@ ("__file" :> e.name)>> \o rest

RetainedByName(d, opts) ==
  LET Keep(e) == IsYamlName(e.name) /\ FileFilter(opts, e.name)
  IN  SelectSeq(d.entries, Keep)

getEntityFiles(d, opts) ==
  IF ~d.exists THEN << >> ELSE ReadFiles(RetainedByName(d, opts), opts)

NoFile == JNull

\* findEntityFile probing '.yml' before '.yaml'
findEntityFile_YmlFirst(d, id) ==
  IF d.exists /\ (id \o ExtYml) \in Names(d) THEN id \o ExtYml
  ELSE IF d.exists /\ (id \o ExtYaml) \in Names(d) THEN id \o ExtYaml
  ELSE NoFile

findEntityFile(d, id) ==
  IF d.exists /\ (id \o ExtYaml) \in Names(d) THEN id \o ExtYaml
  ELSE IF d.exists /\ (id \o ExtYml) \in Names(d) THEN id \o ExtYml
  ELSE NoFile

\* all.find((e) => matchesId(e, id)): the index of the first match, 0 if none
\* the rule by which the Entity Matcher accepts entity for id: 1 slug,
\* 2 file name stem, 3 slug of the name, 4 uuid; 5 when it does not
RuleOf(entity, id) ==
  IF Falsy(id) THEN 5
  ELSE IF Get(entity, "slug") = id THEN 1
  ELSE IF IsString(Get(entity, "__file")) /\ StripYamlExt(entity["__file"]) = id
    THEN 2
  ELSE IF slugifyName(Get(entity, "name")) = id THEN 3
  ELSE IF String(Get(entity, "uuid")) = id THEN 4
  ELSE 5

\* a scan that returns the match of the highest-priority rule, the first of
\* them in enumeration order
FirstMatch_BestRule(all, id) ==
  LET matching == {i \in 1..Len(all) : RuleOf(all[i], id) < 5}
      Better(i, j) ==
        \/ RuleOf(all[i], id) < RuleOf(all[j], id)
        \/ RuleOf(all[i], id) = RuleOf(all[j], id) /\ i <= j
  IN  IF matching = {} THEN 0
      ELSE CHOOSE i \in matching : \A j \in matching : Better(i, j)

\* a scan that keeps the last match instead of the first
FirstMatch_Last(all, id) ==
  LET matching == {i \in 1..Len(all) : matchesId(all[i], id)}
  IN  IF matching = {} THEN 0
      ELSE CHOOSE i \in matching : \A j \in matching : i >= j

FirstMatch(all, id) ==
  LET matching == {i \in 1..Len(all) : matchesId(all[i], id)}
  IN  IF matching = {} THEN 0
      ELSE CHOOSE i \in matching : \A j \in matching : i <= j

----------------------------------------------------------------------------
(* Results: a document, a sequence of documents, a boolean, { ok: true }    *)
(* or { error, status }.  An error message is prefix followed by text.     *)

NoError == [prefix |-> << >>, text |-> ""]

NoResult ==
  [kind |-> "none", doc |-> EmptyDoc, docs |-> << >>, bool |-> FALSE,
   error |-> NoError, status |-> 0, root |-> 0, path |-> JNull,
   text |-> << >>]

\* a path returned by findEntityDir: the index of the candidate, 0 for null
RootResult(root) == [NoResult EXCEPT !.kind = "root", !.root = root]

\* the call did not return: the promise was rejected with a filesystem error
ThrowResult == [NoResult EXCEPT !.kind = "throws"]

\* a directory returned by findBrandDir: the name of the subdirectory of the
\* nested root, JNull for null
PathResult(path) == [NoResult EXCEPT !.kind = "path", !.path = path]

DocResult(doc) == [NoResult EXCEPT !.kind = "doc", !.doc = doc]

DocsResult(docs) == [NoResult EXCEPT !.kind = "docs", !.docs = docs]

BoolResult(b) == [NoResult EXCEPT !.kind = "bool", !.bool = b]

OkResult == [NoResult EXCEPT !.kind = "ok"]

ErrorResult(prefix, text, status) ==
  [NoResult EXCEPT !.kind = "error",
                   !.error = [prefix |-> prefix, text |-> text],
                   !.status = status]

DirectoryNotFound(entity) == ErrorResult(entity, " directory not found", 500)

\* entity.slice(0, -1)
SliceDropLast(s) == SubSeq(s, 1, Len(s) - 1)

----------------------------------------------------------------------------
(* Record Service, reads                                                   *)

readAllEntities(d, entity, opts) ==
  IF ~d.exists THEN DirectoryNotFound(entity)
  ELSE DocsResult(getEntityFiles(d, opts))

readSingleEntity(d, entity, id) ==
  IF ~d.exists THEN DirectoryNotFound(entity)
  ELSE
    LET file == findEntityFile(d, id)
        all == getEntityFiles(d, NoOpts)
        match == FirstMatch(all, id)
    IN  IF file # NoFile /\ Readable(KindOf(d, file))
          THEN DocResult(parseYaml(EntryOf(d, file).text))
        ELSE IF match = 0
          THEN ErrorResult(SliceDropLast(entity), " not found", 404)
        ELSE DocResult(StripFile(all[match]))

----------------------------------------------------------------------------
(* Record Service, write and delete                                        *)

\* an unlink that leaves the file in place
Unlink_Noop(d, name) == d

\* fs.unlink(path) of an existing regular file
Unlink(d, name) ==
  LET Other(e) == e.name # name
  IN  [d EXCEPT !.entries = SelectSeq(@, Other)]

\* a writeFile that leaves the content of the file as it was
Overwrite_Noop(d, name, text) == d

\* fs.writeFile(path, text) of an existing regular file
Overwrite(d, name, text) ==
  [d EXCEPT !.entries[IndexOf(d, name)].text = text]

\* fs.writeFile(path, text) of a path that does not exist: the new file is
\* listed at position pos of the directory
Create(d, name, text, pos) ==
  LET e == [name |-> name, kind |-> "file", text |-> text]
  IN  [d EXCEPT !.entries =
         SubSeq(@, 1, pos - 1) \o <<e>> \o SubSeq(@, pos, Len(@))]

Outcome(d, r) == [dir |-> d, result |-> r]

\* the body of the two try blocks of updateEntityFile on one path: the set
\* of outcomes when the filesystem call succeeds, empty when it throws
TryUpdate(d, name, newValue) ==
  IF newValue = NullEntity
    THEN IF Writable(KindOf(d, name))
           THEN {Outcome(Unlink(d, name), OkResult)}
         ELSE {}
  ELSE IF Writable(KindOf(d, name))
    THEN {Outcome(Overwrite(d, name, stringifyYaml(newValue)), OkResult)}
  ELSE IF KindOf(d, name) = "missing"
    THEN {Outcome(Create(d, name, stringifyYaml(newValue), pos), OkResult) :
            pos \in 1..(Len(d.entries) + 1)}
  ELSE {}

\* an update that creates `{id}.yaml` when nothing matches
updateEntityFile_Upsert(d, id, newValue) ==
  LET file == findEntityFile(d, id)
      direct == IF file = NoFile THEN {} ELSE TryUpdate(d, file, newValue)
      files == getEntityFiles(d, NoOpts)
      match == FirstMatch(files, id)
      scanned == TryUpdate(d, files[match]["__file"], newValue)
  IN  IF direct # {} THEN direct
      ELSE IF match = 0
        THEN IF newValue = NullEntity
               THEN {Outcome(d, ErrorResult(<< >>, "item not found", 404))}
             ELSE TryUpdate(d, id \o ExtYaml, newValue)
      ELSE IF scanned # {} THEN scanned
      ELSE {Outcome(d, ErrorResult(<< >>, "Failed to update file", 500))}

\* the outcomes of updateEntityFile(dir, id, newValue); newValue is
\* NullEntity for null
updateEntityFile(d, id, newValue) ==
  LET file == findEntityFile(d, id)
      direct == IF file = NoFile THEN {} ELSE TryUpdate(d, file, newValue)
      files == getEntityFiles(d, NoOpts)
      match == FirstMatch(files, id)
      scanned == TryUpdate(d, files[match]["__file"], newValue)
  IN  IF direct # {} THEN direct
      ELSE IF match = 0
        THEN {Outcome(d, ErrorResult(<< >>, "item not found", 404))}
      ELSE IF scanned # {} THEN scanned
      ELSE {Outcome(d, ErrorResult(<< >>, "Failed to update file", 500))}

writeSingleEntity(d, entityDirName, id, newValue) ==
  IF ~d.exists THEN {Outcome(d, DirectoryNotFound(entityDirName))}
  ELSE updateEntityFile(d, id, newValue)

deleteSingleEntity(d, entityDirName, id) ==
  IF ~d.exists THEN {Outcome(d, DirectoryNotFound(entityDirName))}
  ELSE updateEntityFile(d, id, NullEntity)

----------------------------------------------------------------------------
(* Locating the data root and the directory of an entity type.             *)
(*                                                                         *)
(* roots describes the locations of the entity type that is being located, *)
(* which is the nested type where there is one:                            *)
(* roots.data   : what fs.stat finds at the two candidates of findDataDir, *)
(*                ./data and ../data, in probe order                       *)
(* roots.entity : what it finds at the four candidates of findEntityDir,   *)
(*                ./data/E, ../data/E, ./openprinttag/E, ../openprinttag/E *)
(* each "missing", "dir" (isDirectory) or "file" (anything else).          *)

PathKinds == {"missing", "dir", "file"}

\* the index of the first candidate that is a directory, 0 for null
FirstDirectory(kinds) ==
  LET found == {i \in 1..Len(kinds) : kinds[i] = "dir"}
  IN  IF found = {} THEN 0 ELSE CHOOSE i \in found : \A j \in found : i <= j

findDataDir(r) == FirstDirectory(r.data)

RootOutcome(r, root, threw) == [roots |-> r, root |-> root, threw |-> threw]

\* fs.mkdir(path.join(dataDir, entity), { recursive: true }): the directory
\* is made when nothing is there and the call throws when a file is
Mkdir(r, dataDir) ==
  IF r.entity[dataDir] = "missing"
    THEN RootOutcome([r EXCEPT !.entity[dataDir] = "dir"], dataDir, FALSE)
  ELSE RootOutcome(r, 0, TRUE)

\* a findEntityDir that makes ./data as well when there is no data root
findEntityDir_MakesDataRoot(r, createIfMissing) ==
  IF FirstDirectory(r.entity) # 0
    THEN RootOutcome(r, FirstDirectory(r.entity), FALSE)
  ELSE IF createIfMissing /\ findDataDir(r) # 0
    THEN Mkdir(r, findDataDir(r))
  ELSE IF createIfMissing /\ r.data[1] = "missing"
    THEN RootOutcome([r EXCEPT !.data[1] = "dir", !.entity[1] = "dir"], 1, FALSE)
  ELSE RootOutcome(r, 0, FALSE)

\* findEntityDir(entity, createIfMissing): the index of the candidate
\* returned (0 for null), the locations afterwards, and whether it threw
findEntityDir(r, createIfMissing) ==
  IF FirstDirectory(r.entity) # 0
    THEN RootOutcome(r, FirstDirectory(r.entity), FALSE)
  ELSE IF createIfMissing /\ findDataDir(r) # 0
    THEN Mkdir(r, findDataDir(r))
  ELSE RootOutcome(r, 0, FALSE)

\* no location exists
NoRoots ==
  [data |-> <<"missing", "missing">>,
   entity |-> <<"missing", "missing", "missing", "missing">>]

----------------------------------------------------------------------------
(* Entities nested by brand.                                               *)
(*                                                                         *)
(* nested.exists  : findEntityDir locates the root of the nested type      *)
(* nested.subdirs : what fs.readdir lists in that root, in order; an entry *)
(*                  has a name, a kind ("dir": stat says isDirectory;      *)
(*                  "file": a regular file) and, for a directory, its      *)
(*                  entries.                                               *)

BrandsName == <<"b", "r", "a", "n", "d", "s">>

SubNames(n) == {n.subdirs[i].name : i \in 1..Len(n.subdirs)}

SubdirOf(n, name) ==
  n.subdirs[CHOOSE i \in 1..Len(n.subdirs) : n.subdirs[i].name = name]

\* fs.stat(path.join(root, name)) succeeds and isDirectory()
IsSubdir(n, name) == name \in SubNames(n) /\ SubdirOf(n, name).kind = "dir"

\* the directory of a subdirectory, as the flat operations take it
DirOf(sub) == [exists |-> TRUE, entries |-> sub.entries]

\* brand.slug || slugifyName(brand.name)
BrandSlug(brand) ==
  IF ~Falsy(Get(brand, "slug")) THEN brand["slug"]
  ELSE slugifyName(Get(brand, "name"))

\* the second attempt of findBrandDir, on what readSingleEntity('brands',
\* brandId) returned: the subdirectory named by the brand's slug
SlugDir(n, brand) ==
  IF brand.kind = "doc" /\ "error" \notin DOMAIN brand.doc
    THEN LET slug == BrandSlug(brand.doc)
         IN  IF ~Falsy(slug) /\ IsSubdir(n, slug) THEN slug ELSE NoFile
  ELSE NoFile

\* findBrandDir(brandId, entityDirName) without createIfMissing: the name of
\* the subdirectory, NoFile for null
findBrandDir(d, n, brandId) ==
  IF ~n.exists THEN NoFile
  ELSE IF IsSubdir(n, brandId) THEN brandId
  ELSE SlugDir(n, readSingleEntity(d, BrandsName, brandId))

BrandOutcome(n, r, path, threw) ==
  [nested |-> n, roots |-> r, path |-> path, threw |-> threw]

\* the root with a new, empty subdirectory listed at position pos
InsertSubdir(n, name, pos) ==
  LET e == [name |-> name, kind |-> "dir", entries |-> << >>]
  IN  [n EXCEPT !.subdirs =
         SubSeq(@, 1, pos - 1) \o <<e>> \o SubSeq(@, pos, Len(@))]

\* fs.mkdir(path.join(root, name), { recursive: true }); return the path:
\* the subdirectory is made when nothing has the name, left when it is
\* there, and the call throws when a regular file has the name
MkdirBrand(n, r, name) ==
  IF name \notin SubNames(n)
    THEN {BrandOutcome(InsertSubdir(n, name, pos), r, name, FALSE) :
            pos \in 1..(Len(n.subdirs) + 1)}
  ELSE IF IsSubdir(n, name) THEN {BrandOutcome(n, r, name, FALSE)}
  ELSE {BrandOutcome(n, r, JNull, TRUE)}

\* the slug of what readSingleEntity('brands', brandId) returned, JNull when
\* it is an error, has an error key or has neither slug nor name
ResolvedSlug(brand) ==
  IF brand.kind = "doc" /\ "error" \notin DOMAIN brand.doc
    THEN BrandSlug(brand.doc)
  ELSE JNull

\* a findBrandDir that makes the literal directory although the brand has a
\* slug
InRoot_LiteralOnly(n, r, brandId, createIfMissing, slug) ==
  IF IsSubdir(n, brandId) THEN {BrandOutcome(n, r, brandId, FALSE)}
  ELSE IF ~Falsy(slug) /\ IsSubdir(n, slug)
    THEN {BrandOutcome(n, r, slug, FALSE)}
  ELSE IF createIfMissing THEN MkdirBrand(n, r, brandId)
  ELSE {BrandOutcome(n, r, JNull, FALSE)}

\* findBrandDir once the root of the nested type is located, slug being the
\* slug of the brand read by brandId
InRoot(n, r, brandId, createIfMissing, slug) ==
  IF IsSubdir(n, brandId) THEN {BrandOutcome(n, r, brandId, FALSE)}
  ELSE IF ~Falsy(slug) /\ IsSubdir(n, slug)
    THEN {BrandOutcome(n, r, slug, FALSE)}
  ELSE IF ~Falsy(slug) /\ createIfMissing THEN MkdirBrand(n, r, slug)
  ELSE IF createIfMissing THEN MkdirBrand(n, r, brandId)
  ELSE {BrandOutcome(n, r, JNull, FALSE)}

\* findBrandDir after findEntityDir(entityDirName, createIfMissing) has
\* ended with out
AfterRoot(n, r, out, brandId, createIfMissing, slug) ==
  IF out.threw THEN {BrandOutcome(n, r, JNull, TRUE)}
  ELSE IF out.root = 0 THEN {BrandOutcome(n, r, JNull, FALSE)}
  ELSE InRoot([n EXCEPT !.exists = TRUE], out.roots, brandId,
              createIfMissing, slug)

\* findBrandDir(brandId, entityDirName, createIfMissing): the outcomes, each
\* the subdirectory returned (JNull for null) or thrown, with the nested
\* root and its locations afterwards
findBrandDirCreate(d, n, r, brandId, createIfMissing) ==
  AfterRoot(n, r, findEntityDir(r, createIfMissing), brandId, createIfMissing,
            ResolvedSlug(readSingleEntity(d, BrandsName, brandId)))

\* a tagging that keeps the brand the document already has
WithBrand_KeepStored(f, brandId) == f @@ ("brand" :> [slug |-> brandId])

\* { ...f, brand: { slug: brandId } }
WithBrand(f, brandId) == ("brand" :> [slug |-> brandId]) @@ f

TagAll(files, brandId) ==
  [i \in 1..Len(files) |-> WithBrand(files[i], brandId)]

ForBrand == <<" ", "f", "o", "r", " ", "b", "r", "a", "n", "d", " ", "'">>

BrandNotFound(entityDirName, brandId) ==
  ErrorResult(entityDirName \o ForBrand \o brandId \o <<"'">>, " not found", 404)

\* readNestedEntitiesByBrand once findBrandDir has returned sub
ReadNestedIn(n, sub, entityDirName, brandId, opts) ==
  IF sub = NoFile THEN BrandNotFound(entityDirName, brandId)
  ELSE DocsResult(TagAll(getEntityFiles(DirOf(SubdirOf(n, sub)), opts), brandId))

readNestedEntitiesByBrand(d, n, entityDirName, brandId, opts) ==
  ReadNestedIn(n, findBrandDir(d, n, brandId), entityDirName, brandId, opts)

\* a loop that reads the first entry of the root only
ReadSubdirs_FirstOnly(subdirs, opts) ==
  IF subdirs = << >> \/ Head(subdirs).kind # "dir" THEN << >>
  ELSE TagAll(getEntityFiles(DirOf(Head(subdirs)), opts), Head(subdirs).name)

\* the loop of readAllNestedAcrossBrands over the entries of the root
RECURSIVE ReadSubdirs(_, _)
ReadSubdirs(subdirs, opts) ==
  IF subdirs = << >> THEN << >>
  ELSE
    LET entry == Head(subdirs)
        rest == ReadSubdirs(Tail(subdirs), opts)
    IN  IF entry.kind = "dir"
          THEN TagAll(getEntityFiles(DirOf(entry), opts), entry.name) \o rest
        ELSE rest

readAllNestedAcrossBrands(n, entityDirName, opts) ==
  IF ~n.exists THEN DirectoryNotFound(entityDirName)
  ELSE DocsResult(ReadSubdirs(n.subdirs, opts))

\* the fallback of readSingleNestedByBrand on the documents of the brand's
\* subdirectory
ScanSingle(all, match, brandId) ==
  IF match = 0 THEN ErrorResult(<< >>, "entity not found", 404)
  ELSE DocResult(WithBrand(StripFile(all[match]), brandId))

\* readSingleNestedByBrand in the brand's subdirectory sd, file being what
\* findEntityFile returned
ReadSingleIn(sd, file, brandId, id) ==
  IF file # NoFile /\ Readable(KindOf(sd, file))
    THEN DocResult(WithBrand(parseYaml(EntryOf(sd, file).text), brandId))
  ELSE ScanSingle(getEntityFiles(sd, NoOpts),
                  FirstMatch(getEntityFiles(sd, NoOpts), id), brandId)

\* readSingleNestedByBrand once findBrandDir has returned sub
ReadSingleAt(sd, sub, entityDirName, brandId, id) ==
  IF sub = NoFile THEN BrandNotFound(entityDirName, brandId)
  ELSE ReadSingleIn(sd, findEntityFile(sd, id), brandId, id)

\* the directory of findBrandDir's result, the empty directory for null
BrandDirOf(n, sub) ==
  IF sub = NoFile THEN [exists |-> FALSE, entries |-> << >>]
  ELSE DirOf(SubdirOf(n, sub))

FoundSingle(n, sub, entityDirName, brandId, id) ==
  ReadSingleAt(BrandDirOf(n, sub), sub, entityDirName, brandId, id)

readSingleNestedByBrand(d, n, entityDirName, brandId, id) ==
  FoundSingle(n, findBrandDir(d, n, brandId), entityDirName, brandId, id)

BrandDirectoryNotFound(entityDirName) ==
  ErrorResult(entityDirName, " brand directory not found", 500)

NestedOutcome(n, r) == [nested |-> n, result |-> r]

\* the root with the entries of its subdirectory sub replaced by those of d
PutSubdir(n, sub, d) ==
  LET k == CHOOSE i \in 1..Len(n.subdirs) : n.subdirs[i].name = sub
  IN  [n EXCEPT !.subdirs[k].entries = d.entries]

\* writeNestedByBrand and deleteNestedByBrand once findBrandDir has returned
\* sub
UpdateIn(n, sub, entityDirName, id, newValue) ==
  IF sub = NoFile
    THEN {NestedOutcome(n, BrandDirectoryNotFound(entityDirName))}
  ELSE {NestedOutcome(PutSubdir(n, sub, out.dir), out.result) :
          out \in updateEntityFile(DirOf(SubdirOf(n, sub)), id, newValue)}

writeNestedByBrand(d, n, entityDirName, brandId, id, newValue) ==
  UpdateIn(n, findBrandDir(d, n, brandId), entityDirName, id, newValue)

deleteNestedByBrand(d, n, entityDirName, brandId, id) ==
  UpdateIn(n, findBrandDir(d, n, brandId), entityDirName, id, NullEntity)

----------------------------------------------------------------------------
(* Lookup Table Reader.                                                    *)
(*                                                                         *)
(* lookup.enums : the array NEW_ENUMS                                      *)
(* lookup.files : what is found at `../openprinttag/data/{name}.yaml` for  *)
(*                some names; a file is "missing" or has the value its     *)
(*                text parses to, of shape "sequence", "mapping" or        *)
(*                "scalar", or "malformed" when parseYaml throws on it     *)

\* 'material_certifications'
MaterialCertifications ==
  <<"m", "a", "t", "e", "r", "i", "a", "l", "_", "c", "e", "r", "t", "i",
    "f", "i", "c", "a", "t", "i", "o", "n", "s">>

\* 'material_tags'
MaterialTags ==
  <<"m", "a", "t", "e", "r", "i", "a", "l", "_", "t", "a", "g", "s">>

\* 'material_types'
MaterialTypes ==
  <<"m", "a", "t", "e", "r", "i", "a", "l", "_", "t", "y", "p", "e", "s">>

\* 'material_tag_categories'
MaterialTagCategories ==
  <<"m", "a", "t", "e", "r", "i", "a", "l", "_", "t", "a", "g", "_", "c",
    "a", "t", "e", "g", "o", "r", "i", "e", "s">>

\* 'material_photo_types'
MaterialPhotoTypes ==
  <<"m", "a", "t", "e", "r", "i", "a", "l", "_", "p", "h", "o", "t", "o",
    "_", "t", "y", "p", "e", "s">>

\* 'brand_link_pattern_types'
BrandLinkPatternTypes ==
  <<"b", "r", "a", "n", "d", "_", "l", "i", "n", "k", "_", "p", "a", "t",
    "t", "e", "r", "n", "_", "t", "y", "p", "e", "s">>

\* 'countries'
Countries ==
  <<"c", "o", "u", "n", "t", "r", "i", "e", "s">>

NEW_ENUMS ==
  <<MaterialCertifications, MaterialTags, MaterialTypes,
    MaterialTagCategories, MaterialPhotoTypes, BrandLinkPatternTypes,
    Countries>>

\* NEW_ENUMS.includes(tableName)
Includes(enums, tableName) == \E i \in 1..Len(enums) : enums[i] = tableName

MissingFile == [shape |-> "missing", items |-> << >>]

\* the file `${tableName}.yaml` of the lookup data directory
LookupFile(l, tableName) ==
  IF tableName \in DOMAIN l.files THEN l.files[tableName] ELSE MissingFile

\* { items: data, meta: { key: 'items' } }
ItemsResult(data) == [NoResult EXCEPT !.kind = "items", !.docs = data]

InvalidLookupTable ==
  ErrorResult(<< >>, "Invalid lookup table file (expected array)", 500)

LookupTableNotFound == ErrorResult(<< >>, "Lookup table not found", 404)

\* the try block of readLookupTable on the file it read
ReadTable(file) ==
  IF file.shape \in {"missing", "malformed"} THEN LookupTableNotFound
  ELSE IF file.shape # "sequence" THEN InvalidLookupTable
  ELSE ItemsResult(file.items)

LookupOutcome(l, r) == [lookup |-> l, result |-> r]

\* a reader that consults the file of any name
readLookupTable_AnyName(l, tableName) ==
  LookupOutcome(l, ReadTable(LookupFile(l, tableName)))

readLookupTable(l, tableName) ==
  IF Includes(l.enums, tableName)
    THEN LookupOutcome(l, ReadTable(LookupFile(l, tableName)))
  ELSE LookupOutcome(l, LookupTableNotFound)

\* the order of a.localeCompare(b) on the characters of the table names: the
\* underscore before the letters
CollationOrder == <<"_">> \o LowerChars

CharRank(c) == CHOOSE i \in 1..Len(CollationOrder) : CollationOrder[i] = c

\* a.localeCompare(b) <= 0
RECURSIVE LocaleLessEq(_, _)
LocaleLessEq(a, b) ==
  IF a = << >> THEN TRUE
  ELSE IF b = << >> THEN FALSE
  ELSE IF Head(a) = Head(b) THEN LocaleLessEq(Tail(a), Tail(b))
  ELSE CharRank(Head(a)) < CharRank(Head(b))

RECURSIVE InsertSorted(_, _)
InsertSorted(x, sorted) ==
  IF sorted = << >> THEN <<x>>
  ELSE IF LocaleLessEq(x, Head(sorted)) THEN <<x>> \o sorted
  ELSE <<Head(sorted)>> \o InsertSorted(x, Tail(sorted))

\* files.sort((a, b) => a.localeCompare(b))
RECURSIVE SortNames(_)
SortNames(files) ==
  IF files = << >> THEN << >>
  ELSE InsertSorted(Head(files), SortNames(Tail(files)))

\* string[]
NamesResult(files) == [NoResult EXCEPT !.kind = "names", !.docs = files]

\* the copy [...NEW_ENUMS] is sorted, the array is left as it is
listLookupTables(l) == LookupOutcome(l, NamesResult(SortNames(l.enums)))

----------------------------------------------------------------------------
(* The directories, identifiers and documents the operations are run on    *)

\* the most files a directory holds initially
MaxFiles == 2

sA == <<"a">>
sB == <<"b">>

\* the entity type of the directory
EntityName == <<"b", "r", "a", "n", "d", "s">>

Ids == {sA, sB}

FileAYaml == sA \o ExtYaml
FileAYml == sA \o ExtYml
FileBUpperYml == sB \o <<".", "Y", "M", "L">>
FileNotes == <<"n", ".", "t", "x", "t">>

FileNames == {FileAYaml, FileAYml, FileBUpperYml, FileNotes}

DocSlugB == [slug |-> sB]
DocNameB == [name |-> <<"B">>]
DocUuidB == [uuid |-> sB]
DocA == [slug |-> sA, name |-> <<"A">>, uuid |-> sA]
\* a document that itself has a field named __file
DocOwnFile == [__file |-> FileBUpperYml]

Docs == {DocSlugB, DocNameB, DocUuidB, DocA, DocOwnFile}

\* the documents written by write
NewValues == {DocSlugB, DocA}

OptsSet == [fileFilter : {"none", "yamlOnly"}, validate : {"none", "hasSlug"}]

Entries ==
  {[name |-> n, kind |-> "file", text |-> stringifyYaml(doc)] :
     n \in FileNames, doc \in Docs}
  \cup
  {[name |-> n, kind |-> "dir", text |-> stringifyYaml(EmptyDoc)] : n \in FileNames}

DistinctNames(es) ==
  \A i, j \in 1..Len(es) : i # j => es[i].name # es[j].name

\* every listing of at most MaxFiles entries with distinct names
Listings ==
  {es \in UNION {[1..n -> Entries] : n \in 0..MaxFiles} : DistinctNames(es)}

InitDirs ==
  {[exists |-> TRUE, entries |-> es] : es \in Listings}
  \cup {[exists |-> FALSE, entries |-> << >>]}

NoOp ==
  [name |-> "none", id |-> << >>, newValue |-> NullEntity, opts |-> NoOpts,
   entity |-> NullEntity, brandId |-> << >>, createIfMissing |-> FALSE,
   input |-> JNull, tableName |-> << >>, normalizeThrows |-> FALSE,
   lib |-> "none"]

\* no nested type
NoNested == [exists |-> FALSE, subdirs |-> << >>]

\* no lookup table is looked at
NoLookup == [enums |-> << >>, files |-> << >>]

\* no request is in progress: the operations above run one at a time
NoCalls == << >>

\* the entity type a creation route works on, none outside those routes
NoCategory == << >>

\* what an operation keeps of the state it was called in
Snapshot ==
  /\ pre' = dir
  /\ preNested' = nested
  /\ preRoots' = roots
  /\ calls' = calls
  /\ category' = category

----------------------------------------------------------------------------
(* Specification: the operations of the Record Service on one directory,   *)
(* one call at a time.  op is the call that has returned and whose result   *)
(* the caller holds, pre the directory it was called on, result what it    *)
(* returned; op is NoOp between calls.                                     *)

Init ==
  /\ dir \in InitDirs
  /\ nested = NoNested
  /\ roots = NoRoots
  /\ lookup = NoLookup
  /\ op = NoOp
  /\ pre = dir
  /\ preNested = nested
  /\ preRoots = roots
  /\ result = NoResult
  /\ calls = NoCalls
  /\ category = NoCategory

\* the Collection Reader called on the directory, located or not
GetEntityFiles ==
  /\ op = NoOp
  /\ \E opts \in OptsSet :
       /\ op' = [NoOp EXCEPT !.name = "getEntityFiles", !.opts = opts]
       /\ result' = DocsResult(getEntityFiles(dir, opts))
  /\ Snapshot
  /\ UNCHANGED <<dir, nested, roots, lookup>>

ReadAllEntities ==
  /\ op = NoOp
  /\ \E opts \in OptsSet :
       /\ op' = [NoOp EXCEPT !.name = "readAll", !.opts = opts]
       /\ result' = readAllEntities(dir, EntityName, opts)
  /\ Snapshot
  /\ UNCHANGED <<dir, nested, roots, lookup>>

ReadSingleEntity ==
  /\ op = NoOp
  /\ \E id \in Ids :
       /\ op' = [NoOp EXCEPT !.name = "readOne", !.id = id]
       /\ result' = readSingleEntity(dir, EntityName, id)
  /\ Snapshot
  /\ UNCHANGED <<dir, nested, roots, lookup>>

WriteSingleEntity ==
  /\ op = NoOp
  /\ \E id \in Ids, newValue \in NewValues :
       \E out \in writeSingleEntity(dir, EntityName, id, newValue) :
         /\ op' = [NoOp EXCEPT !.name = "write", !.id = id, !.newValue = newValue]
         /\ dir' = out.dir
         /\ result' = out.result
  /\ Snapshot
  /\ UNCHANGED <<nested, roots, lookup>>

DeleteSingleEntity ==
  /\ op = NoOp
  /\ \E id \in Ids :
       \E out \in deleteSingleEntity(dir, EntityName, id) :
         /\ op' = [NoOp EXCEPT !.name = "delete", !.id = id]
         /\ dir' = out.dir
         /\ result' = out.result
  /\ Snapshot
  /\ UNCHANGED <<nested, roots, lookup>>

\* the caller has consumed the result; the next call can be made
Return ==
  /\ op # NoOp
  /\ op' = NoOp
  /\ Snapshot
  /\ result' = NoResult
  /\ UNCHANGED <<dir, nested, roots, lookup>>

Next ==
  \/ GetEntityFiles
  \/ ReadAllEntities
  \/ ReadSingleEntity
  \/ WriteSingleEntity
  \/ DeleteSingleEntity
  \/ Return

Spec == Init /\ [][Next]_vars

----------------------------------------------------------------------------
(* Specification of the Entity Matcher alone: matchesId applied to every   *)
(* entity and identifier of MatchEntities and MatchIds.                    *)

FileATxt == <<"a", ".", "t", "x", "t">>

sAB == <<"a", "-", "b">>

MatchIds ==
  {sA, sB, sAB, << >>, JNull, String(JNull), String(JUndefined)}

MatchFields ==
  [slug : {JUndefined, sA, sB},
   name : {JUndefined, <<"A">>, <<"A", " ", "_", "B">>},
   uuid : {JUndefined, JNull, sA, sAB},
   file : {JUndefined, JNull, FileAYaml, FileBUpperYml, FileATxt}]

\* the object with the fields of f that are not undefined
MatchEntity(f) ==
  LET present == {k \in {"slug", "name", "uuid", "file"} : f[k] # JUndefined}
      Key(k) == IF k = "file" THEN "__file" ELSE k
  IN  [k \in {Key(p) : p \in present} |->
         IF k = "__file" THEN f.file ELSE f[k]]

MatchEntities == {MatchEntity(f) : f \in MatchFields} \cup {NullEntity}

InitMatch ==
  /\ dir = [exists |-> FALSE, entries |-> << >>]
  /\ nested = NoNested
  /\ roots = NoRoots
  /\ lookup = NoLookup
  /\ op = NoOp
  /\ pre = dir
  /\ preNested = nested
  /\ preRoots = roots
  /\ result = NoResult
  /\ calls = NoCalls
  /\ category = NoCategory

MatchesId ==
  /\ op = NoOp
  /\ \E entity \in MatchEntities, id \in MatchIds :
       /\ op' = [NoOp EXCEPT !.name = "matchesId", !.entity = entity, !.id = id]
       /\ result' = BoolResult(matchesId(entity, id))
  /\ UNCHANGED <<dir, nested, roots, lookup, pre, preNested, preRoots, calls,
                 category>>

NextMatch ==
  \/ MatchesId
  \/ Return

SpecMatch == InitMatch /\ [][NextMatch]_vars

----------------------------------------------------------------------------
(* Specification of the reads of an entity type nested by brand, next to   *)
(* the operations on the brands directory: the materials root holds one    *)
(* subdirectory per brand.                                                 *)

\* the most brand files, subdirectories of the materials root, and files in
\* all subdirectories of the root together
MaxBrands == 1
MaxSubdirs == 2
MaxMaterials == 2

MaterialsName == <<"m", "a", "t", "e", "r", "i", "a", "l", "s">>

BrandIds == {sA, sB}

\* a brand that has an error key besides its slug
DocErrorB == [slug |-> sB, error |-> <<"x">>]

BrandEntries ==
  {[name |-> n, kind |-> "file", text |-> stringifyYaml(doc)] :
     n \in {FileAYaml, FileBUpperYml},
     doc \in {DocSlugB, DocNameB, DocUuidB, DocA, DocErrorB}}

BrandDirs ==
  {[exists |-> TRUE, entries |-> es] :
     es \in {l \in UNION {[1..n -> BrandEntries] : n \in 0..MaxBrands} :
               DistinctNames(l)}}
  \cup {[exists |-> FALSE, entries |-> << >>]}

\* a material whose file already has a brand field
DocBranded == [slug |-> sA, brand |-> [slug |-> sB]]

MaterialEntries ==
  {[name |-> n, kind |-> "file", text |-> stringifyYaml(doc)] :
     n \in {FileAYaml, FileBUpperYml}, doc \in {DocSlugB, DocOwnFile, DocBranded}}
  \cup {[name |-> FileAYaml, kind |-> "dir", text |-> stringifyYaml(EmptyDoc)]}

MaterialListings ==
  {l \in UNION {[1..n -> MaterialEntries] : n \in 0..MaxMaterials} :
     DistinctNames(l)}

Subdirs ==
  {[name |-> n, kind |-> "dir", entries |-> l] :
     n \in BrandIds, l \in MaterialListings}
  \cup {[name |-> n, kind |-> "file", entries |-> << >>] : n \in BrandIds}

RECURSIVE FilesIn(_)
FilesIn(ss) ==
  IF ss = << >> THEN 0 ELSE Len(Head(ss).entries) + FilesIn(Tail(ss))

NestedRoots ==
  {[exists |-> TRUE, subdirs |-> ss] :
     ss \in {l \in UNION {[1..n -> Subdirs] : n \in 0..MaxSubdirs} :
               DistinctNames(l) /\ FilesIn(l) <= MaxMaterials}}
  \cup {NoNested}

\* the locations of the root of the nested type that go with nested: the
\* root is ./data/E when it is located; when it is not, there is no data root,
\* or a data root without E, or a data root where E is a regular file
LocatedRoots ==
  [data |-> <<"dir", "missing">>,
   entity |-> <<"dir", "missing", "missing", "missing">>]

RootsOf(n) ==
  IF n.exists THEN {LocatedRoots}
  ELSE {NoRoots,
        [NoRoots EXCEPT !.data[1] = "dir"],
        [NoRoots EXCEPT !.data[2] = "dir"],
        [NoRoots EXCEPT !.data[1] = "dir", !.entity[1] = "file"]}

NestedOpts == {NoOpts, [fileFilter |-> "yamlOnly", validate |-> "hasSlug"]}

InitNested ==
  /\ \/ dir \in InitDirs /\ nested = NoNested /\ roots = NoRoots
     \/ dir \in BrandDirs /\ nested \in NestedRoots /\ roots \in RootsOf(nested)
  /\ lookup = NoLookup
  /\ op = NoOp
  /\ pre = dir
  /\ preNested = nested
  /\ preRoots = roots
  /\ result = NoResult
  /\ calls = NoCalls
  /\ category = NoCategory

ReadNestedEntitiesByBrand ==
  /\ op = NoOp
  /\ \E brandId \in BrandIds, opts \in NestedOpts :
       /\ op' = [NoOp EXCEPT !.name = "readAllByParent", !.brandId = brandId,
                             !.opts = opts]
       /\ result' = readNestedEntitiesByBrand(dir, nested, MaterialsName,
                                              brandId, opts)
  /\ Snapshot
  /\ UNCHANGED <<dir, nested, roots, lookup>>

ReadAllNestedAcrossBrands ==
  /\ op = NoOp
  /\ \E opts \in NestedOpts :
       /\ op' = [NoOp EXCEPT !.name = "readAllAcrossParents", !.opts = opts]
       /\ result' = readAllNestedAcrossBrands(nested, MaterialsName, opts)
  /\ Snapshot
  /\ UNCHANGED <<dir, nested, roots, lookup>>

ReadSingleNestedByBrand ==
  /\ op = NoOp
  /\ \E brandId \in BrandIds, id \in Ids :
       /\ op' = [NoOp EXCEPT !.name = "readOneByParent", !.brandId = brandId,
                             !.id = id]
       /\ result' = readSingleNestedByBrand(dir, nested, MaterialsName,
                                            brandId, id)
  /\ Snapshot
  /\ UNCHANGED <<dir, nested, roots, lookup>>

\* the read operations, flat and nested
NextNested ==
  \/ ReadAllEntities
  \/ ReadSingleEntity
  \/ ReadNestedEntitiesByBrand
  \/ ReadAllNestedAcrossBrands
  \/ ReadSingleNestedByBrand
  \/ Return

SpecNested == InitNested /\ [][NextNested]_vars

\* the nine storage operations together
WriteNestedByBrand ==
  /\ op = NoOp
  /\ \E brandId \in BrandIds, id \in Ids, newValue \in NewValues :
       \E out \in writeNestedByBrand(dir, nested, MaterialsName, brandId, id,
                                     newValue) :
         /\ op' = [NoOp EXCEPT !.name = "writeByParent", !.brandId = brandId,
                               !.id = id, !.newValue = newValue]
         /\ nested' = out.nested
         /\ result' = out.result
  /\ Snapshot
  /\ UNCHANGED <<dir, roots, lookup>>

DeleteNestedByBrand ==
  /\ op = NoOp
  /\ \E brandId \in BrandIds, id \in Ids :
       \E out \in deleteNestedByBrand(dir, nested, MaterialsName, brandId, id) :
         /\ op' = [NoOp EXCEPT !.name = "deleteByParent", !.brandId = brandId,
                               !.id = id]
         /\ nested' = out.nested
         /\ result' = out.result
  /\ Snapshot
  /\ UNCHANGED <<dir, roots, lookup>>

NextStore ==
  \/ NextNested
  \/ WriteSingleEntity
  \/ DeleteSingleEntity
  \/ WriteNestedByBrand
  \/ DeleteNestedByBrand

SpecStore == InitNested /\ [][NextStore]_vars

----------------------------------------------------------------------------
(* Specification of findBrandDir, with and without createIfMissing, on the *)
(* brands directories and nested roots of SpecNested.                      *)

InitBrandDir ==
  /\ dir \in BrandDirs
  /\ nested \in NestedRoots
  /\ roots \in RootsOf(nested)
  /\ lookup = NoLookup
  /\ op = NoOp
  /\ pre = dir
  /\ preNested = nested
  /\ preRoots = roots
  /\ result = NoResult
  /\ calls = NoCalls
  /\ category = NoCategory

FindBrandDir ==
  /\ op = NoOp
  /\ \E brandId \in BrandIds, createIfMissing \in BOOLEAN :
       \E out \in findBrandDirCreate(dir, nested, roots, brandId, createIfMissing) :
         /\ op' = [NoOp EXCEPT !.name = "findBrandDir", !.brandId = brandId,
                               !.createIfMissing = createIfMissing]
         /\ nested' = out.nested
         /\ roots' = out.roots
         /\ result' = IF out.threw THEN ThrowResult ELSE PathResult(out.path)
  /\ Snapshot
  /\ UNCHANGED <<dir, lookup>>

NextBrandDir ==
  \/ FindBrandDir
  \/ Return

SpecBrandDir == InitBrandDir /\ [][NextBrandDir]_vars

----------------------------------------------------------------------------
(* Specification of findEntityDir alone, on every combination of what is   *)
(* found at the candidate locations: ./data/E and ../data/E can only be    *)
(* there when the data root above them is a directory.                     *)

AllRoots ==
  {r \in [data : [1..2 -> PathKinds], entity : [1..4 -> PathKinds]] :
     \A i \in 1..2 : r.entity[i] # "missing" => r.data[i] = "dir"}

\* the root of the type as located in r, its content left out
RootAt(r) == [exists |-> FirstDirectory(r.entity) # 0, subdirs |-> << >>]

InitRoot ==
  /\ dir = [exists |-> FALSE, entries |-> << >>]
  /\ roots \in AllRoots
  /\ nested = RootAt(roots)
  /\ lookup = NoLookup
  /\ op = NoOp
  /\ pre = dir
  /\ preNested = nested
  /\ preRoots = roots
  /\ result = NoResult
  /\ calls = NoCalls
  /\ category = NoCategory

FindEntityDir ==
  /\ op = NoOp
  /\ \E createIfMissing \in BOOLEAN :
       LET out == findEntityDir(roots, createIfMissing)
       IN  /\ op' = [NoOp EXCEPT !.name = "findEntityDir",
                                 !.createIfMissing = createIfMissing]
           /\ roots' = out.roots
           /\ nested' = RootAt(out.roots)
           /\ result' = IF out.threw THEN ThrowResult ELSE RootResult(out.root)
  /\ Snapshot
  /\ UNCHANGED <<dir, lookup>>

NextRoot ==
  \/ FindEntityDir
  \/ Return

SpecRoot == InitRoot /\ [][NextRoot]_vars

----------------------------------------------------------------------------
(* write and delete on directories with entries the filesystem refuses to  *)
(* change                                                                  *)

PersistEntries ==
  {[name |-> n, kind |-> k, text |-> stringifyYaml(doc)] :
     n \in {FileAYaml, FileAYml, FileBUpperYml}, k \in {"file", "locked"},
     doc \in {DocA, DocSlugB}}
  \cup
  {[name |-> n, kind |-> "dir", text |-> stringifyYaml(EmptyDoc)] :
     n \in {FileAYaml, FileAYml}}

InitPersist ==
  /\ dir \in {[exists |-> TRUE, entries |-> es] :
               es \in {l \in UNION {[1..n -> PersistEntries] : n \in 0..MaxFiles} :
                         DistinctNames(l)}}
  /\ nested = NoNested
  /\ roots = NoRoots
  /\ lookup = NoLookup
  /\ op = NoOp
  /\ pre = dir
  /\ preNested = nested
  /\ preRoots = roots
  /\ result = NoResult
  /\ calls = NoCalls
  /\ category = NoCategory

NextPersist ==
  \/ WriteSingleEntity
  \/ DeleteSingleEntity
  \/ Return

SpecPersist == InitPersist /\ [][NextPersist]_vars

----------------------------------------------------------------------------
(* The Lookup Table Reader on its data directory                           *)

\* a name that is not in NEW_ENUMS
NotARealTable == <<"n", "o", "t", "-", "a", "-", "t", "a", "b", "l", "e">>

\* the names that have a file in the lookup data directory
LookupFileNames == {Countries, MaterialTags, NotARealTable}

LookupEntry == [name |-> <<"x">>]

LookupFiles ==
  {MissingFile,
   [shape |-> "malformed", items |-> << >>],
   [shape |-> "mapping", items |-> << >>],
   [shape |-> "scalar", items |-> << >>],
   [shape |-> "sequence", items |-> << >>],
   [shape |-> "sequence", items |-> <<LookupEntry>>]}

InitLookup ==
  /\ dir = [exists |-> FALSE, entries |-> << >>]
  /\ nested = NoNested
  /\ roots = NoRoots
  /\ lookup \in {[enums |-> NEW_ENUMS, files |-> f] :
                  f \in [LookupFileNames -> LookupFiles]}
  /\ op = NoOp
  /\ pre = dir
  /\ preNested = nested
  /\ preRoots = roots
  /\ result = NoResult
  /\ calls = NoCalls
  /\ category = NoCategory

ReadLookupTable ==
  /\ op = NoOp
  /\ \E tableName \in LookupFileNames \cup {MaterialTypes} :
       LET out == readLookupTable(lookup, tableName)
       IN  /\ op' = [NoOp EXCEPT !.name = "readLookupTable",
                                 !.tableName = tableName]
           /\ lookup' = out.lookup
           /\ result' = out.result
  /\ Snapshot
  /\ UNCHANGED <<dir, nested, roots>>

ListLookupTables ==
  /\ op = NoOp
  /\ LET out == listLookupTables(lookup)
     IN  /\ op' = [NoOp EXCEPT !.name = "listLookupTables"]
         /\ lookup' = out.lookup
         /\ result' = out.result
  /\ Snapshot
  /\ UNCHANGED <<dir, nested, roots>>

NextLookup ==
  \/ ReadLookupTable
  \/ ListLookupTables
  \/ Return

SpecLookup == InitLookup /\ [][NextLookup]_vars

----------------------------------------------------------------------------
(* slugifyName on strings                                                  *)

MaxLen == 3

\* "Prusament PLA Galaxy Black"
PrusamentName ==
  <<"P", "r", "u", "s", "a", "m", "e", "n", "t", " ", "P", "L", "A", " ",
    "G", "a", "l", "a", "x", "y", " ", "B", "l", "a", "c", "k">>

\* "Caf\u00e9   Noir_Brand"
CafeName ==
  <<"C", "a", "f", EAcute, " ", " ", " ", "N", "o", "i", "r", "_", "B",
    "r", "a", "n", "d">>

SlugAlphabet == {"A", "b", "1", " ", "_", "-", "!", EAcute, CombiningAcute}

SlugInputs ==
  UNION {[1..n -> SlugAlphabet] : n \in 0..MaxLen}
  \cup {JNull, JUndefined, PrusamentName, CafeName}

\* string | null
SlugResult(slug) == [NoResult EXCEPT !.kind = "slug", !.text = slug]

InitSlug ==
  /\ dir = [exists |-> FALSE, entries |-> << >>]
  /\ nested = NoNested
  /\ roots = NoRoots
  /\ lookup = NoLookup
  /\ op = NoOp
  /\ pre = dir
  /\ preNested = nested
  /\ preRoots = roots
  /\ result = NoResult
  /\ calls = NoCalls
  /\ category = NoCategory

SlugifyName ==
  /\ op = NoOp
  /\ \E input \in SlugInputs, normalizeThrows \in BOOLEAN :
       /\ op' = [NoOp EXCEPT !.name = "slugifyName", !.input = input,
                             !.normalizeThrows = normalizeThrows]
       /\ result' = SlugResult(SlugOn(normalizeThrows, input))
  /\ Snapshot
  /\ UNCHANGED <<dir, nested, roots, lookup>>

\* slugifyName called on the string the last call returned
SlugifyAgain ==
  /\ op.name = "slugifyName"
  /\ result.text # JNull
  /\ op' = [op EXCEPT !.name = "slugifyAgain", !.input = result.text]
  /\ result' = SlugResult(SlugOn(op.normalizeThrows, result.text))
  /\ Snapshot
  /\ UNCHANGED <<dir, nested, roots, lookup>>

NextSlug ==
  \/ SlugifyName
  \/ SlugifyAgain
  \/ Return

SpecSlug == InitSlug /\ [][NextSlug]_vars

----------------------------------------------------------------------------
(* stringifyYaml on the texts its two paths work on                        *)

MaxText == 4

TextAlphabet == {"a", " ", "\n"}

Texts == UNION {[1..n -> TextAlphabet] : n \in 0..MaxText}

\* what mod.stringify returns: any text; the yaml package ends its text
\* with a newline, and with several when the last scalar of the document is
\* a block scalar that keeps its trailing line breaks
LibTexts == Texts

\* what JSON.stringify(obj, null, 2) returns: a text that does not end with
\* a newline
JsonTexts == {t \in Texts : t # << >> /\ t[Len(t)] = "a"}

LibModes == {"stringify", "unavailable", "throws"}

\* Promise<string>
TextResult(text) == [NoResult EXCEPT !.kind = "text", !.text = text]

StringifyYaml ==
  /\ op = NoOp
  /\ \E lib \in LibModes :
       \E produced \in (IF lib = "stringify" THEN LibTexts ELSE JsonTexts) :
         /\ op' = [NoOp EXCEPT !.name = "stringifyYaml", !.lib = lib,
                               !.input = produced]
         /\ result' = TextResult(stringifyYamlText(lib, produced))
  /\ Snapshot
  /\ UNCHANGED <<dir, nested, roots, lookup>>

NextYaml ==
  \/ StringifyYaml
  \/ Return

SpecYaml == InitSlug /\ [][NextYaml]_vars

----------------------------------------------------------------------------
(* Properties of the Record Service, checked under Spec                    *)

\* the first k entries of a directory
Prefix(d, k) == [d EXCEPT !.entries = SubSeq(@, 1, k)]

IsNotFound(r) == r.kind = "error" /\ r.status = 404

\* no entry of d is named `{id}.yaml` or `{id}.yml`
NoDirectName(d, id) ==
  (id \o ExtYaml) \notin Names(d) /\ (id \o ExtYml) \notin Names(d)

DeleteTarget(d, id) ==
  LET yaml == id \o ExtYaml
      yml == id \o ExtYml
      named == IF yaml \in Names(d) THEN yaml ELSE yml
      all == getEntityFiles(d, NoOpts)
      first == CHOOSE i \in 1..Len(all) :
                 /\ matchesId(all[i], id)
                 /\ \A j \in 1..(i - 1) : ~matchesId(all[j], id)
  IN  IF KindOf(d, named) = "file" THEN named ELSE all[first]["__file"]

\* d without the entry called name, the other entries in their order
Without(d, name) ==
  LET Other(e) == e.name # name
  IN  [d EXCEPT !.entries = SelectSeq(@, Other)]

\* a regular file `{id}.yaml` / `{id}.yml` or a document matching id is left
StillResolves(d, id) ==
  \/ KindOf(d, id \o ExtYaml) = "file"
  \/ KindOf(d, id \o ExtYaml) = "missing" /\ KindOf(d, id \o ExtYml) = "file"
  \/ \E i \in 1..Len(getEntityFiles(d, NoOpts)) :
       matchesId(getEntityFiles(d, NoOpts)[i], id)

C3_WriteUnknownIdNotFound ==
  (/\ op.name = "write"
   /\ pre.exists
   /\ NoDirectName(pre, op.id)
   /\ \A i \in 1..Len(getEntityFiles(pre, NoOpts)) :
        ~matchesId(getEntityFiles(pre, NoOpts)[i], op.id))
    => /\ result = ErrorResult(<< >>, "item not found", 404)
       /\ dir = pre

\* write("b", doc) on a directory whose two files do not match "b"
C3_Witness ==
  /\ op.name = "write"
  /\ op.id = sB
  /\ op.newValue = DocSlugB
  /\ Len(pre.entries) = 2
  /\ Len(getEntityFiles(pre, NoOpts)) = 2
  /\ NoDirectName(pre, sB)
  /\ result.status = 404
  /\ dir = pre

\* C4: readOne(type, id) when no file is named `{id}.yaml` / `{id}.yml`
\* returns the first document of the Collection Reader, in enumeration
\* order, that the Entity Matcher accepts for id (without its provenance
\* field), the 404 error when there is none, and what it returns is already
\* returned on every prefix of the enumeration that holds a match: the
\* entries listed after the match have no influence.
C4_FirstMatchInEnumerationOrder ==
  (op.name = "readOne" /\ pre.exists /\ NoDirectName(pre, op.id)) =>
    LET all == getEntityFiles(pre, NoOpts)
        Hit(i) == matchesId(all[i], op.id)
    IN  /\ (\A i \in 1..Len(all) : ~Hit(i)) => IsNotFound(result)
        /\ \A i \in 1..Len(all) :
             (Hit(i) /\ \A j \in 1..(i - 1) : ~Hit(j))
               => result = DocResult(StripFile(all[i]))
        /\ \A k \in 0..Len(pre.entries) :
             LET r == readSingleEntity(Prefix(pre, k), EntityName, op.id)
             IN  r.kind = "doc" => result = r

\* readOne("b") with two matching documents, the one with uuid "b" listed
\* before the one with slug "b"
C4_Witness ==
  /\ op.name = "readOne"
  /\ op.id = sB
  /\ Len(pre.entries) = 2
  /\ pre.entries[1].name = FileAYaml
  /\ pre.entries[1].kind = "file"
  /\ parseYaml(pre.entries[1].text) = DocUuidB
  /\ pre.entries[2].kind = "file"
  /\ parseYaml(pre.entries[2].text) = DocSlugB
  /\ result = DocResult(DocUuidB)

\* the names whose entry differs between d1 and d2
ChangedNames(d1, d2) ==
  {n \in Names(d1) \cup Names(d2) :
     \/ KindOf(d1, n) # KindOf(d2, n)
     \/ KindOf(d1, n) # "missing" /\ EntryOf(d1, n) # EntryOf(d2, n)}

\* C5 as stated: with no directly named file, the document readOne returns
\* is one that matches id by the highest-priority rule among the rules by
\* which the documents of the directory match id.
C5_HighestPriorityRuleWins ==
  (/\ op.name = "readOne"
   /\ pre.exists
   /\ NoDirectName(pre, op.id)
   /\ result.kind = "doc")
    => LET all == getEntityFiles(pre, NoOpts)
       IN  \E i \in 1..Len(all) :
             /\ result.doc = StripFile(all[i])
             /\ RuleOf(all[i], op.id) < 5
             /\ \A j \in 1..Len(all) : RuleOf(all[i], op.id) <= RuleOf(all[j], op.id)

\* C5 amended: with no directly named file, the document readOne returns
\* and the file write and delete act on are those of the first document in
\* enumeration order that matches id by any of the four rules, also when a
\* document listed later matches by a rule of higher priority.
C5_FirstMatchWhateverRule ==
  (/\ op.name \in {"readOne", "write", "delete"}
   /\ pre.exists
   /\ NoDirectName(pre, op.id))
    => LET all == getEntityFiles(pre, NoOpts)
           matching == {i \in 1..Len(all) : RuleOf(all[i], op.id) < 5}
           first == CHOOSE i \in matching : \A j \in matching : i <= j
           target == all[first]["__file"]
       IN  IF matching = {} THEN IsNotFound(result)
           ELSE IF op.name = "readOne"
             THEN result = DocResult(StripFile(all[first]))
           ELSE result.kind = "ok" =>
                  /\ ChangedNames(pre, dir) \subseteq {target}
                  /\ op.name = "delete" => KindOf(dir, target) = "missing"
                  /\ op.name = "write" =>
                       EntryOf(dir, target).text = stringifyYaml(op.newValue)

\* write("b", doc) with a.yaml matching by uuid listed before a.yml matching
\* by slug: a.yaml is the file overwritten
C5_Witness ==
  /\ op.name = "write"
  /\ op.id = sB
  /\ op.newValue = DocA
  /\ Len(pre.entries) = 2
  /\ pre.entries[1] = [name |-> FileAYaml, kind |-> "file", text |-> stringifyYaml(DocUuidB)]
  /\ pre.entries[2] = [name |-> FileAYml, kind |-> "file", text |-> stringifyYaml(DocSlugB)]
  /\ result.kind = "ok"
  /\ dir.entries[1].text = stringifyYaml(DocA)
  /\ dir.entries[2] = pre.entries[2]

\* C6: readOne(type, id) on a located directory returns the 404 error
\* "<type without its last character> not found" if and only if neither
\* `{id}.yaml` nor `{id}.yml` is a readable file and the Entity Matcher
\* accepts none of the documents read from the directory; in every other
\* case it returns a document.
C6_NotFoundIffNothingMatches ==
  (op.name = "readOne" /\ pre.exists) =>
    LET all == getEntityFiles(pre, NoOpts)
        nothing ==
          /\ KindOf(pre, op.id \o ExtYaml) # "file"
          /\ KindOf(pre, op.id \o ExtYml) # "file"
          /\ \A i \in 1..Len(all) : ~matchesId(all[i], op.id)
    IN  /\ result = ErrorResult(SliceDropLast(EntityName), " not found", 404)
            <=> nothing
        /\ ~nothing => result.kind = "doc"

\* the sequence of the documents of the entries of d that getEntityFiles is
\* to return: those named *.yaml / *.yml that pass the file name predicate,
\* can be read and pass the content predicate
ExpectedDocs(d, opts) ==
  LET Qualifies(e) ==
        /\ IsYamlName(e.name)
        /\ FileFilter(opts, e.name)
        /\ e.kind = "file"
        /\ Validate(opts, parseYaml(e.text))
      kept == SelectSeq(d.entries, Qualifies)
  IN  [i \in 1..Len(kept) |-> StripFile(parseYaml(kept[i].text))]

C10_ProvenanceIsSourceFile ==
  op.name = "getEntityFiles" =>
    LET Qualifies(e) ==
          /\ IsYamlName(e.name)
          /\ FileFilter(op.opts, e.name)
          /\ e.kind = "file"
          /\ Validate(op.opts, parseYaml(e.text))
        kept == SelectSeq(pre.entries, Qualifies)
    IN  /\ Len(result.docs) = Len(kept)
        /\ \A i \in 1..Len(kept) : Get(result.docs[i], "__file") = kept[i].name

----------------------------------------------------------------------------
(* Properties of the Entity Matcher, checked under SpecMatch               *)

\* C7: matches(document, identifier) is false for a null document and for a
\* null or empty identifier, and otherwise true exactly when the slug field
\* equals the identifier, or the stem of the source file name does, or the
\* slug normalised from the name field does, or String(uuid) does.
C7_MatcherIsDisjunctionOfFourRules ==
  op.name = "matchesId" =>
    LET e == op.entity
        id == op.id
        file == Get(e, "__file")
    IN  result.bool =
          IF e = NullEntity \/ id = JNull \/ id = << >> THEN FALSE
          ELSE \/ Get(e, "slug") = id
               \/ IsString(file) /\ StripYamlExt(file) = id
               \/ slugifyName(Get(e, "name")) = id
               \/ String(Get(e, "uuid")) = id

\* a document that matches "a-b" through its name alone
C7_Witness ==
  /\ op.name = "matchesId"
  /\ op.entity = [name |-> <<"A", " ", "_", "B">>]
  /\ op.id = sAB
  /\ result = BoolResult(TRUE)

----------------------------------------------------------------------------
(* Properties of the read operations, flat and nested, checked under       *)
(* SpecNested                                                              *)

CollectionReads == {"readAll", "readAllByParent", "readAllAcrossParents"}

SingleReads == {"readOne", "readOneByParent"}

HasFile(doc) == "__file" \in DOMAIN doc

\* the directory a single-record read that returned a document searched
SearchedDir ==
  IF op.name = "readOneByParent"
    THEN DirOf(SubdirOf(nested, findBrandDir(pre, nested, op.brandId)))
  ELSE pre

\* the read was served from the file named after the identifier
ServedDirectly ==
  LET file == findEntityFile(SearchedDir, op.id)
  IN  file # NoFile /\ KindOf(SearchedDir, file) = "file"

\* C9 as stated: no document returned by readAll, readOne, readAllByParent,
\* readAllAcrossParents or readOneByParent carries the source-filename field.
C9_NoReturnedDocumentCarriesProvenance ==
  op.name \in CollectionReads \cup SingleReads =>
    /\ result.kind = "doc" => ~HasFile(result.doc)
    /\ result.kind = "docs" =>
         \A i \in 1..Len(result.docs) : ~HasFile(result.docs[i])

\* C9 as the code has it: the source-filename field is removed only from a
\* document that readOne or readOneByParent found by scanning the directory;
\* every document of readAll, readAllByParent and readAllAcrossParents carries
\* the field, and a single-record read served from the file named after the
\* identifier returns the content of that file as it is, so with the field
\* exactly when the content has it.
C9_ProvenanceStrippedOnlyByScan ==
  /\ op.name \in CollectionReads /\ result.kind = "docs" =>
       \A i \in 1..Len(result.docs) : HasFile(result.docs[i])
  /\ op.name \in SingleReads /\ result.kind = "doc" =>
       IF ServedDirectly
         THEN HasFile(result.doc) <=>
                HasFile(parseYaml(
                  EntryOf(SearchedDir, findEntityFile(SearchedDir, op.id)).text))
       ELSE ~HasFile(result.doc)

\* readOneByParent found a material by scanning the brand's subdirectory: the
\* Collection Reader gives the document with its source filename, the caller
\* gets it without
C9_Witness ==
  /\ op.name = "readOneByParent"
  /\ result.kind = "doc"
  /\ ~ServedDirectly
  /\ ~HasFile(result.doc)
  /\ \E i \in 1..Len(getEntityFiles(SearchedDir, NoOpts)) :
       LET e == getEntityFiles(SearchedDir, NoOpts)[i]
       IN  /\ HasFile(e)
           /\ matchesId(e, op.id)
           /\ result.doc = WithBrand(StripFile(e), op.brandId)

----------------------------------------------------------------------------
(* Properties of findEntityDir, checked under SpecRoot                     *)

AllMissing(kinds) == \A i \in 1..Len(kinds) : kinds[i] = "missing"

\* C11 as stated: findRoot returns the first candidate that is a directory;
\* when no candidate exists and createIfMissing is set, the result is not
\* null and names a directory that now exists; when no candidate exists and
\* createIfMissing is not set, the result is null and nothing is created.
C11_CreateAlwaysGivesDirectory ==
  op.name = "findEntityDir" =>
    /\ \A i \in 1..4 :
         (preRoots.entity[i] = "dir" /\ \A j \in 1..(i - 1) : preRoots.entity[j] # "dir")
           => result = RootResult(i)
    /\ (AllMissing(preRoots.entity) /\ op.createIfMissing) =>
         /\ result.kind = "root"
         /\ result.root # 0
         /\ roots.entity[result.root] = "dir"
    /\ (AllMissing(preRoots.entity) /\ ~op.createIfMissing) =>
         result = RootResult(0) /\ roots = preRoots

\* C11 as the code has it: findRoot returns the first candidate, in probe
\* order, that is a directory, and changes nothing; when none is and
\* createIfMissing is set and a data root is found (./data, else ../data), it
\* makes the type's directory under that data root and returns it, or fails
\* with the filesystem's error when a non-directory has that path; when
\* createIfMissing is not set, or no data root is found, it returns null and
\* creates nothing.
C11_CreateNeedsDataRoot ==
  op.name = "findEntityDir" =>
    LET none == \A i \in 1..4 : preRoots.entity[i] # "dir"
        dataRoots == {i \in 1..2 : preRoots.data[i] = "dir"}
        first == CHOOSE i \in dataRoots : \A j \in dataRoots : i <= j
    IN  /\ \A i \in 1..4 :
             (preRoots.entity[i] = "dir"
                /\ \A j \in 1..(i - 1) : preRoots.entity[j] # "dir")
               => result = RootResult(i) /\ roots = preRoots
        /\ (none /\ op.createIfMissing /\ dataRoots # {}) =>
             IF preRoots.entity[first] = "missing"
               THEN /\ result = RootResult(first)
                    /\ roots = [preRoots EXCEPT !.entity[first] = "dir"]
             ELSE result = ThrowResult /\ roots = preRoots
        /\ (none /\ (~op.createIfMissing \/ dataRoots = {})) =>
             result = RootResult(0) /\ roots = preRoots
        /\ (result.kind = "root" /\ result.root # 0) =>
             roots.entity[result.root] = "dir"

\* createIfMissing with only ../data there: ../data/E is made and returned
C11_Witness ==
  /\ op.name = "findEntityDir"
  /\ op.createIfMissing
  /\ preRoots = [NoRoots EXCEPT !.data[2] = "dir"]
  /\ result = RootResult(2)
  /\ roots.entity[2] = "dir"

----------------------------------------------------------------------------
(* Properties of findBrandDir, checked under SpecBrandDir                  *)

\* the brand document that brandId resolves to in the brands directory, as
\* readOne gives it
ParentOf(d, brandId) == readSingleEntity(d, BrandsName, brandId)

\* the canonical slug of a document: its slug field, else the slug of its
\* name
CanonicalSlug(doc) ==
  IF "slug" \in DOMAIN doc /\ doc["slug"] # << >> THEN doc["slug"]
  ELSE IF "name" \in DOMAIN doc THEN slugifyName(doc["name"])
  ELSE JNull

\* n without the subdirectory called name
WithoutSubdir(n, name) ==
  LET Other(e) == e.name # name
  IN  [n EXCEPT !.subdirs = SelectSeq(@, Other)]

----------------------------------------------------------------------------
(* Properties of the nested reads, checked under SpecNested                *)

\* C13: every document returned by readAllByParent and readOneByParent has
\* a brand back-reference whose slug is the parentIdentifier the caller
\* gave, whichever directory was read and whatever brand field the stored
\* document has.
C13_BackReferenceIsCallerIdentifier ==
  op.name \in {"readAllByParent", "readOneByParent"} =>
    /\ result.kind = "docs" =>
         \A i \in 1..Len(result.docs) :
           Get(result.docs[i], "brand") = [slug |-> op.brandId]
    /\ result.kind = "doc" =>
         Get(result.doc, "brand") = [slug |-> op.brandId]

\* readAllByParent("a") where the brand a.yaml has the slug "b", the root has
\* b/ but no a/, and the material stored in b/ names the brand "b": the
\* document comes back with the brand slug "a"
C13_Witness ==
  /\ op.name = "readAllByParent"
  /\ op.brandId = sA
  /\ ~IsSubdir(nested, sA)
  /\ findBrandDir(pre, nested, sA) = sB
  /\ \E i \in 1..Len(SubdirOf(nested, sB).entries) :
       parseYaml(SubdirOf(nested, sB).entries[i].text) = DocBranded
  /\ result.kind = "docs"
  /\ Len(result.docs) = 1
  /\ result.docs[1]["brand"] = [slug |-> sA]

\* the results of readAllByParent(nestedType, d) for the subdirectories d
\* among the first k entries of the root, one after the other
RECURSIVE ConcatByParent(_, _, _, _)
ConcatByParent(d, n, opts, k) ==
  IF k = 0 THEN << >>
  ELSE
    LET entry == n.subdirs[k]
        before == ConcatByParent(d, n, opts, k - 1)
    IN  IF entry.kind = "dir"
          THEN before \o readNestedEntitiesByBrand(d, n, MaterialsName,
                                                   entry.name, opts).docs
        ELSE before

\* C14: readAllAcrossParents returns the documents of the subdirectories of
\* the nested root and no other, each with the brand slug equal to the name
\* of the subdirectory its file is in; the result is the concatenation, over
\* the subdirectories d in enumeration order, of readAllByParent(d).
C14_AcrossParentsIsConcatenation ==
  (op.name = "readAllAcrossParents" /\ nested.exists) =>
    /\ result.kind = "docs"
    /\ result.docs = ConcatByParent(pre, nested, op.opts, Len(nested.subdirs))
    /\ \A i \in 1..Len(result.docs) :
         \E k \in 1..Len(nested.subdirs) :
           LET entry == nested.subdirs[k]
               files == getEntityFiles(DirOf(entry), op.opts)
           IN  /\ entry.kind = "dir"
               /\ result.docs[i]["brand"] = [slug |-> entry.name]
               /\ \E j \in 1..Len(files) :
                    result.docs[i] = ("brand" :> [slug |-> entry.name]) @@ files[j]

\* two subdirectories with one material each, a/ being the directory of no
\* brand's canonical slug: both documents are returned, tagged "a" and "b"
C14_Witness ==
  /\ op.name = "readAllAcrossParents"
  /\ op.opts = NoOpts
  /\ Len(nested.subdirs) = 2
  /\ nested.subdirs[1].name = sA
  /\ nested.subdirs[2].name = sB
  /\ ParentOf(pre, sA) = DocResult(DocSlugB)
  /\ result.kind = "docs"
  /\ Len(result.docs) = 2
  /\ result.docs[1]["brand"] = [slug |-> sA]
  /\ result.docs[2]["brand"] = [slug |-> sB]

----------------------------------------------------------------------------
(* C15                                                                     *)

FlatOps == {"readAll", "readOne", "write", "delete"}

NestedOps ==
  {"readAllByParent", "readAllAcrossParents", "readOneByParent",
   "writeByParent", "deleteByParent"}

\* the root directory the finished operation works on could not be located
RootNotLocated ==
  \/ op.name \in FlatOps /\ ~pre.exists
  \/ op.name \in NestedOps /\ ~preNested.exists

NothingModified == dir = pre /\ nested = preNested /\ roots = preRoots

\* C15: every read, write and delete operation, flat or nested, returns an
\* error descriptor with status 500 when the root directory of its entity
\* type or nested type cannot be located, and modifies nothing on the
\* filesystem.
C15_DirectoryNotFoundIs500Everywhere ==
  RootNotLocated =>
    /\ result.kind = "error"
    /\ result.status = 500
    /\ NothingModified

\* what the code does in the cases where it departs from C15: the two
\* by-parent reads answer 404 for a root that cannot be located
C15_ByParentReadsAnswer404 ==
  (RootNotLocated /\ op.name \in {"readAllByParent", "readOneByParent"}) =>
    /\ result = BrandNotFound(MaterialsName, op.brandId)
    /\ NothingModified

\* the other seven operations do as C15 says
C15_OtherOperationsAnswer500 ==
  (RootNotLocated /\ op.name \notin {"readAllByParent", "readOneByParent"}) =>
    /\ result.kind = "error"
    /\ result.status = 500
    /\ NothingModified

C15_Witness ==
  /\ op.name = "writeByParent"
  /\ ~preNested.exists
  /\ result = BrandDirectoryNotFound(MaterialsName)

----------------------------------------------------------------------------
(* C16                                                                     *)

FailedToUpdate == ErrorResult(<< >>, "Failed to update file", 500)

\* the file the direct lookup locates exists and the filesystem refuses the
\* write or unlink on it
DirectFails(d, file, newValue) ==
  file # NoFile /\ TryUpdate(d, file, newValue) = {}

\* the scan is reached, matches, and the filesystem refuses the write or
\* unlink on the matched file
ScanFails(d, file, files, match, newValue) ==
  /\ file = NoFile \/ DirectFails(d, file, newValue)
  /\ match # 0
  /\ TryUpdate(d, files[match]["__file"], newValue) = {}

TargetFails(d, id, newValue) ==
  \/ DirectFails(d, findEntityFile(d, id), newValue)
  \/ ScanFails(d, findEntityFile(d, id), getEntityFiles(d, NoOpts),
               FirstMatch(getEntityFiles(d, NoOpts), id), newValue)

\* C16: whenever write or delete has located a target file, by direct file
\* name lookup or by scan and match, and the filesystem write or unlink on
\* that file fails, the operation returns the 500 error "Failed to update
\* file", never ok and never NotFound.
C16_FailureOnLocatedFileIs500 ==
  (op.name \in {"write", "delete"} /\ pre.exists
     /\ TargetFails(pre, op.id, op.newValue))
    => result = FailedToUpdate

\* what the code guarantees: a failure on the file the scan matched is
\* reported as the 500 error
C16_FailureOnScannedFileIs500 ==
  (op.name \in {"write", "delete"} /\ pre.exists
     /\ ScanFails(pre, findEntityFile(pre, op.id), getEntityFiles(pre, NoOpts),
                  FirstMatch(getEntityFiles(pre, NoOpts), op.id), op.newValue))
    => result = FailedToUpdate /\ dir = pre

\* a refused write on the directly named file that ends as NotFound
C16_RefusedThenNotFound ==
  /\ op.name = "write"
  /\ DirectFails(pre, findEntityFile(pre, op.id), op.newValue)
  /\ IsNotFound(result)

\* a refused write on the directly named file that ends ok on another file
C16_RefusedThenOk ==
  /\ op.name = "write"
  /\ DirectFails(pre, findEntityFile(pre, op.id), op.newValue)
  /\ result = OkResult

----------------------------------------------------------------------------
(* C17                                                                     *)

C17_NotListedDespiteFile ==
  /\ op.name = "readLookupTable"
  /\ op.tableName = NotARealTable
  /\ LookupFile(lookup, NotARealTable).shape = "sequence"
  /\ result = LookupTableNotFound

\* a list that returned the names in another order than the allow-list has
C17_ListReturnsSortedCopy ==
  /\ op.name = "listLookupTables"
  /\ result.docs # NEW_ENUMS
  /\ result.docs[1] = BrandLinkPatternTypes
  /\ lookup.enums = NEW_ENUMS

----------------------------------------------------------------------------
(* C18                                                                     *)

\* "prusament-pla-galaxy-black"
PrusamentSlug ==
  <<"p", "r", "u", "s", "a", "m", "e", "n", "t", "-", "p", "l", "a", "-",
    "g", "a", "l", "a", "x", "y", "-", "b", "l", "a", "c", "k">>

\* "cafe-noir-brand"
CafeSlug ==
  <<"c", "a", "f", "e", "-", "n", "o", "i", "r", "-", "b", "r", "a", "n",
    "d">>

SlugCalls == {"slugifyName", "slugifyAgain"}

\* C18: normalize("Prusament PLA Galaxy Black") is
\* "prusament-pla-galaxy-black", normalize("Cafe   Noir_Brand") with an
\* e-acute is "cafe-noir-brand", normalize(null) and normalize("") are null.
C18_ReferenceResults ==
  op.name \in SlugCalls =>
    /\ op.input = PrusamentName => result.text = PrusamentSlug
    /\ op.input = CafeName => result.text = CafeSlug
    /\ op.input \in {JNull, << >>} => result.text = JNull

\* the reference results the code does give
C18_OtherReferenceResults ==
  op.name \in SlugCalls =>
    /\ op.input = PrusamentName => result.text = PrusamentSlug
    /\ op.input \in {JNull, << >>} => result.text = JNull

\* the underscore is dropped with the punctuation before it can become a
\* hyphen
C18_CafeLosesUnderscore ==
  /\ op.name = "slugifyName"
  /\ op.input = CafeName
  /\ ~op.normalizeThrows
  /\ result.text = <<"c", "a", "f", "e", "-", "n", "o", "i", "r", "b", "r",
                     "a", "n", "d">>

----------------------------------------------------------------------------
(* C19                                                                     *)

SlugChars == LowerSet \cup DigitChars \cup {"-"}

OnlySlugChars(t) == \A i \in 1..Len(t) : t[i] \in SlugChars

NoAdjacentHyphens(t) == \A i \in 1..(Len(t) - 1) : ~(t[i] = "-" /\ t[i + 1] = "-")

NonEmptyString(v) == IsString(v) /\ v # << >>

----------------------------------------------------------------------------
(* C20                                                                     *)

RECURSIVE TrailingNewlines(_)
TrailingNewlines(t) ==
  IF EndsWithNewline(t) THEN 1 + TrailingNewlines(SubSeq(t, 1, Len(t) - 1))
  ELSE 0

BeginsWithHeader(t) ==
  Len(t) >= Len(FallbackHeader) /\ SubSeq(t, 1, Len(FallbackHeader)) = FallbackHeader

\* C20: the output of serialize ends with exactly one trailing newline for
\* every document, on the primary-library path and on the degraded path,
\* and on the degraded path it begins with the comment line that marks the
\* fallback encoding.
C20_ExactlyOneTrailingNewline ==
  op.name = "stringifyYaml" =>
    /\ TrailingNewlines(result.text) = 1
    /\ op.lib # "stringify" => BeginsWithHeader(result.text)

\* C20 as the code has it: a newline is appended only to a text that does
\* not end with one, so the output ends with at least one newline; on the
\* degraded path with exactly one, on the primary path with as many as the
\* library's text ends with.
C20_AtLeastOneTrailingNewline ==
  op.name = "stringifyYaml" =>
    /\ TrailingNewlines(result.text) >= 1
    /\ op.lib # "stringify" =>
         /\ TrailingNewlines(result.text) = 1
         /\ BeginsWithHeader(result.text)
    /\ op.lib = "stringify" =>
         /\ EndsWithNewline(op.input) => result.text = op.input
         /\ ~EndsWithNewline(op.input) => result.text = op.input \o <<"\n">>

\* the degraded path on a JSON text of two lines
C20_Witness ==
  /\ op.name = "stringifyYaml"
  /\ op.lib = "unavailable"
  /\ op.input = <<"a", "\n", "a">>
  /\ result.text = FallbackHeader \o <<"a", "\n", "a", "\n">>

\* the primary path on a library text that ends with two newlines
C20_LibraryNewlinesKept ==
  /\ op.name = "stringifyYaml"
  /\ op.lib = "stringify"
  /\ TrailingNewlines(op.input) = 2
  /\ result.text = op.input

----------------------------------------------------------------------------
(* C27                                                                     *)

LacksUuid(e) == Get(e, "uuid") \in {JUndefined, JNull}

\* C27: a document that has no uuid field, or a null one, is matched by an
\* identifier only through its slug field, the stem of its file name or the
\* slug of its name, for every identifier string, "undefined" and "null"
\* included.
C27_NoUuidNoUuidMatch ==
  (op.name = "matchesId" /\ op.entity # NullEntity /\ LacksUuid(op.entity)
     /\ result.bool) =>
    LET file == Get(op.entity, "__file")
    IN  \/ Get(op.entity, "slug") = op.id
        \/ IsString(file) /\ StripYamlExt(file) = op.id
        \/ slugifyName(Get(op.entity, "name")) = op.id

\* the document { slug: 'a' } matched by the identifier "undefined"
C27_UndefinedMatchesUuidless ==
  /\ op.name = "matchesId"
  /\ op.entity = [slug |-> sA]
  /\ op.id = String(JUndefined)
  /\ result = BoolResult(TRUE)

\* with identifiers other than "undefined" and "null" the claim holds
C27_HoldsForOtherIdentifiers ==
  (op.name = "matchesId" /\ op.entity # NullEntity /\ LacksUuid(op.entity)
     /\ result.bool /\ op.id \notin {String(JUndefined), String(JNull)}) =>
    LET file == Get(op.entity, "__file")
    IN  \/ Get(op.entity, "slug") = op.id
        \/ IsString(file) /\ StripYamlExt(file) = op.id
        \/ slugifyName(Get(op.entity, "name")) = op.id

----------------------------------------------------------------------------
(* C26                                                                     *)

\* some file of d holds a document with a field named __file
HoldsOwnFile(d) ==
  \E i \in 1..Len(d.entries) :
    d.entries[i].kind # "dir" /\ HasFile(parseYaml(d.entries[i].text))

\* C26: a write or delete changes at most one file and changes the set of
\* file names only by removing the deleted file; when `{id}.yaml` or
\* `{id}.yml` exists no other file is modified or removed, whether the call
\* ends in ok or in an error; when the call returns an error every file is
\* unchanged.
C26_OnlyTheNamedFileChanges ==
  (op.name \in {"write", "delete"} /\ pre.exists) =>
    /\ Cardinality(ChangedNames(pre, dir)) <= 1
    /\ Names(dir) \subseteq Names(pre)
    /\ Names(dir) # Names(pre) => op.name = "delete" /\ result = OkResult
    /\ findEntityFile(pre, op.id) # NoFile =>
         ChangedNames(pre, dir) \subseteq {findEntityFile(pre, op.id)}
    /\ result.kind = "error" => dir = pre

\* C26 holds of the calls in which no failure on the directly named file is
\* swallowed (C16) and no document replaces its provenance (C10)
C26_HoldsWithoutSwallowedFailure ==
  (op.name \in {"write", "delete"} /\ pre.exists /\ ~HoldsOwnFile(pre)
     /\ ~DirectFails(pre, findEntityFile(pre, op.id), op.newValue)) =>
    /\ Cardinality(ChangedNames(pre, dir)) <= 1
    /\ Names(dir) \subseteq Names(pre)
    /\ Names(dir) # Names(pre) => op.name = "delete" /\ result = OkResult
    /\ findEntityFile(pre, op.id) # NoFile =>
         ChangedNames(pre, dir) \subseteq {findEntityFile(pre, op.id)}
    /\ result.kind = "error" => dir = pre

\* a write that finds `a.yaml`, is refused on it, and overwrites `b.YML`
C26_OtherFileOverwritten ==
  /\ op.name = "write"
  /\ op.id = sA
  /\ KindOf(pre, FileAYaml) = "dir"
  /\ ChangedNames(pre, dir) = {FileBUpperYml}
  /\ result = OkResult

\* a write that adds a file name to the directory
C26_WriteAddsFileName ==
  /\ op.name = "write"
  /\ ~(Names(dir) \subseteq Names(pre))


----------------------------------------------------------------------------
(* Specification: two calls of updateEntityFile in progress at once on one *)
(* directory.  The server is a single process without locks: a call runs   *)
(* until its next await of a filesystem call, and the calls of another     *)
(* request may run between two of its filesystem calls.  calls[p] is the   *)
(* position of call p: pc is the filesystem call it will make next, file   *)
(* what findEntityFile returned, names the file names getEntityFiles has   *)
(* still to read, files what it has read, target the path the call wrote   *)
(* or unlinked, at the rank of that write among the writes of all calls    *)
(* (0 before it).  The entries are regular files, on which no filesystem   *)
(* call fails for another reason than the file being away.                 *)

Exts == <<ExtYaml, ExtYml>>

NewCall(id, newValue) ==
  [id |-> id, newValue |-> newValue, pc |-> "access", ext |-> 1,
   file |-> NoFile, names |-> << >>, files |-> << >>, target |-> NoFile,
   at |-> 0, result |-> NoResult]

\* the rank of the next write
Stamp(cs) == 1 + Cardinality({q \in DOMAIN cs : cs[q].at > 0})

\* the call has written or unlinked path name and returns r
Finished(c, name, at, r) ==
  [c EXCEPT !.pc = "done", !.target = name, !.at = at, !.result = r]

\* findEntityFile, one pass of its loop: fs.access of `{id}{ext}`
AccessFile(p) ==
  /\ calls[p].pc = "access"
  /\ LET c == calls[p]
         name == c.id \o Exts[c.ext]
     IN  calls' = [calls EXCEPT ![p] =
           IF name \in Names(dir)
             THEN [c EXCEPT !.file = name, !.pc = "direct"]
           ELSE IF c.ext < Len(Exts) THEN [c EXCEPT !.ext = c.ext + 1]
           ELSE [c EXCEPT !.pc = "readdir"]]
  /\ UNCHANGED <<dir, nested, roots, lookup, op, pre, preNested, preRoots,
                 result, category>>

\* the first try block of updateEntityFile: fs.unlink or fs.writeFile of
\* the path findEntityFile returned, in the directory as it is now
UpdateDirect(p) ==
  /\ calls[p].pc = "direct"
  /\ LET c == calls[p]
         outs == TryUpdate(dir, c.file, c.newValue)
     IN  IF outs = {}
           THEN /\ calls' = [calls EXCEPT ![p].pc = "readdir"]
                /\ dir' = dir
         ELSE \E o \in outs :
                /\ dir' = o.dir
                /\ calls' = [calls EXCEPT ![p] =
                     Finished(c, c.file, Stamp(calls), o.result)]
  /\ UNCHANGED <<nested, roots, lookup, op, pre, preNested, preRoots, result,
                 category>>

\* getEntityFiles: fs.readdir and the filter on the file names
ReadDirectory(p) ==
  /\ calls[p].pc = "readdir"
  /\ LET c == calls[p]
         retained == RetainedByName(dir, NoOpts)
         names == [i \in 1..Len(retained) |-> retained[i].name]
     IN  calls' = [calls EXCEPT ![p] =
           [c EXCEPT !.names = names, !.files = << >>,
                     !.pc = IF names = << >> THEN "update" ELSE "readFile"]]
  /\ UNCHANGED <<dir, nested, roots, lookup, op, pre, preNested, preRoots,
                 result, category>>

\* getEntityFiles, one pass of its loop: fs.readFile of the next name; a
\* file that cannot be read any more is skipped
ReadFile(p) ==
  /\ calls[p].pc = "readFile"
  /\ LET c == calls[p]
         name == Head(c.names)
         read == IF Readable(KindOf(dir, name))
                   THEN <<parseYaml(EntryOf(dir, name).text)
                            @@ ("__file" :> name)>>
                 ELSE << >>
     IN  calls' = [calls EXCEPT ![p] =
           [c EXCEPT !.names = Tail(c.names), !.files = c.files \o read,
                     !.pc = IF Tail(c.names) = << >> THEN "update"
                            ELSE "readFile"]]
  /\ UNCHANGED <<dir, nested, roots, lookup, op, pre, preNested, preRoots,
                 result, category>>

\* the rest of updateEntityFile: the match among the files read and the
\* second try block on its path
UpdateMatch(p) ==
  /\ calls[p].pc = "update"
  /\ LET c == calls[p]
         match == FirstMatch(c.files, c.id)
         name == c.files[match]["__file"]
         outs == TryUpdate(dir, name, c.newValue)
     IN  IF match = 0
           THEN /\ calls' = [calls EXCEPT ![p] =
                     [c EXCEPT !.pc = "done",
                               !.result =
                                 ErrorResult(<< >>, "item not found", 404)]]
                /\ dir' = dir
         ELSE IF outs = {}
           THEN /\ calls' = [calls EXCEPT ![p] =
                     [c EXCEPT !.pc = "done",
                               !.result =
                                 ErrorResult(<< >>, "Failed to update file",
                                             500)]]
                /\ dir' = dir
         ELSE \E o \in outs :
                /\ dir' = o.dir
                /\ calls' = [calls EXCEPT ![p] =
                     Finished(c, name, Stamp(calls), o.result)]
  /\ UNCHANGED <<nested, roots, lookup, op, pre, preNested, preRoots, result,
                 category>>

ConcurrentNames == {FileAYaml, FileAYml, FileBUpperYml}

ConcurrentEntries ==
  {[name |-> n, kind |-> "file", text |-> stringifyYaml(doc)] :
     n \in ConcurrentNames, doc \in NewValues}

ConcurrentDirs ==
  {[exists |-> TRUE, entries |-> es] :
     es \in {l \in UNION {[1..n -> ConcurrentEntries] : n \in 0..MaxFiles} :
               DistinctNames(l)}}

\* a write and, on the same identifier, a second write or a delete
ConcurrentCalls ==
  {<<NewCall(id, a), NewCall(id, b)>> :
     id \in Ids, a \in NewValues, b \in NewValues \cup {NullEntity}}

InitConcurrent ==
  /\ dir \in ConcurrentDirs
  /\ nested = NoNested
  /\ roots = NoRoots
  /\ lookup = NoLookup
  /\ op = NoOp
  /\ pre = dir
  /\ preNested = nested
  /\ preRoots = roots
  /\ result = NoResult
  /\ calls \in ConcurrentCalls
  /\ category = NoCategory

NextConcurrent ==
  \E p \in DOMAIN calls :
    \/ AccessFile(p)
    \/ UpdateDirect(p)
    \/ ReadDirectory(p)
    \/ ReadFile(p)
    \/ UpdateMatch(p)

SpecConcurrent == InitConcurrent /\ [][NextConcurrent]_vars
----------------------------------------------------------------------------
(* C22 *)

BothDone == calls # NoCalls /\ \A p \in DOMAIN calls : calls[p].pc = "done"

TwoWrites ==
  calls # NoCalls /\ \A p \in DOMAIN calls : calls[p].newValue # NullEntity

\* the call whose write came last
LastWriter == CHOOSE p \in DOMAIN calls : calls[p].at = Len(calls)

\* the two calls wrote the same path, a file of the directory they started in
SameTarget ==
  /\ calls[1].target # NoFile
  /\ calls[1].target = calls[2].target
  /\ calls[1].target \in Names(pre)

C22_DirectWitness ==
  /\ TwoWrites /\ BothDone /\ SameTarget
  /\ calls[1].newValue # calls[2].newValue
  /\ calls[1].file = calls[1].target
  /\ calls[1].at = 2

----------------------------------------------------------------------------
(* C29 *)

WriteAndDelete ==
  /\ calls # NoCalls
  /\ calls[1].newValue # NullEntity
  /\ calls[2].newValue = NullEntity

\* the identifier names a record of the directory the calls started in
ExistingRecord ==
  \/ findEntityFile(pre, calls[1].id) # NoFile
  \/ FirstMatch(getEntityFiles(pre, NoOpts), calls[1].id) # 0

\* C29: in every interleaving of a write with a concurrent delete on the
\* same existing record no step of the write adds a file name to the
\* directory, and once the delete has removed the file and returned
\* { ok: true } the file is absent after the write has finished.
C29_WriteNeverCreates ==
  (WriteAndDelete /\ ExistingRecord) =>
    /\ Names(dir) \subseteq Names(pre)
    /\ (BothDone /\ calls[2].result = OkResult) =>
         calls[2].target \notin Names(dir)

\* a name is added only by a write that located its file before the delete
\* unlinked it and wrote the file after
C29_CreatesOnlyAfterTheUnlink ==
  (WriteAndDelete /\ calls[2].target \in Names(dir)) =>
    /\ calls[1].target = calls[2].target
    /\ calls[1].at > calls[2].at
    /\ calls[1].result = OkResult

\* the delete returned { ok: true } and the write that finished after it
\* returned { ok: true } too: the deleted file is in the directory again
C29_DeletedFileIsBack ==
  /\ WriteAndDelete /\ BothDone
  /\ calls[2].result = OkResult
  /\ calls[1].result = OkResult
  /\ calls[1].at = 2
  /\ calls[2].target \in Names(dir)
  /\ EntryOf(dir, calls[2].target).text = stringifyYaml(calls[1].newValue)

----------------------------------------------------------------------------
(* Creation routes: POST /api/brands/$brandId/materials/new, POST          *)
(* /api/containers/new and POST /api/brands/$brandId/packages/new.         *)
(*                                                                         *)
(* category is the entity type of the route.  For the containers dir is    *)
(* the directory of the type and roots its locations; for the materials    *)
(* and the packages dir is the directory of the brands, nested the root of *)
(* the type and roots the locations of that root.  A payload is a document *)
(* of the fields the routes decide on: name, slug, class, material_slug,   *)
(* container_slug; the fields they copy into the record are left out.      *)

ContainersName ==
  <<"m", "a", "t", "e", "r", "i", "a", "l", "-", "c", "o", "n", "t", "a", "i",
    "n", "e", "r", "s">>

PackagesName ==
  <<"m", "a", "t", "e", "r", "i", "a", "l", "-", "p", "a", "c", "k", "a", "g",
    "e", "s">>

CreateOutcome(d, n, r, res) ==
  [dir |-> d, nested |-> n, roots |-> r, result |-> res]

\* the success answer of a route: the record written, its slug, the
\* subdirectory written into (JNull for the containers) and the HTTP status
CreatedResult(doc, slug, path, status) ==
  [NoResult EXCEPT !.kind = "created", !.doc = doc, !.text = slug,
                   !.path = path, !.status = status]

\* the answer of the catch block of a route: err.message
FilesystemError == ErrorResult(<< >>, "err.message", 500)

BrandMissing(brandId) ==
  ErrorResult(<<"B", "r", "a", "n", "d", " ", "'">> \o brandId,
              "' not found or missing UUID", 404)

Digits == <<"0", "1", "2", "3", "4", "5", "6", "7", "8", "9">>

\* `${counter}`
RECURSIVE Decimal(_)
Decimal(n) ==
  IF n < Len(Digits) THEN <<Digits[n + 1]>>
  ELSE Decimal(n \div Len(Digits)) \o <<Digits[(n % Len(Digits)) + 1]>>

\* `${baseSlug}-${counter}`
Suffixed(baseSlug, counter) == baseSlug \o <<"-">> \o Decimal(counter)

\* the set the route fills from allMaterials: every slug that is not falsy
existingSlugs(allMaterials) ==
  IF allMaterials.kind # "docs" THEN {}
  ELSE {allMaterials.docs[i]["slug"] :
          i \in {j \in 1..Len(allMaterials.docs) :
                   ~Falsy(Get(allMaterials.docs[j], "slug"))}}

\* the while loop of the route, entered with slug and counter
RECURSIVE SearchSlug(_, _, _, _)
SearchSlug(existing, baseSlug, slug, counter) ==
  IF slug \notin existing THEN slug
  ELSE SearchSlug(existing, baseSlug, Suffixed(baseSlug, counter), counter + 1)

\* a search that tries the first suffix once and takes it
UniqueSlug_OneSuffix(existing, baseSlug) ==
  IF baseSlug \notin existing THEN baseSlug ELSE Suffixed(baseSlug, 2)

\* let slug = baseSlug; let counter = 2; while (existingSlugs.has(slug)) ...
UniqueSlug(existing, baseSlug) == SearchSlug(existing, baseSlug, baseSlug, 2)

\* Date.now() at the time of the request
Now == <<"1">>

\* payload.slug || slugifyName(payload.name) || `material-${Date.now()}`
MaterialBaseSlug(payload) ==
  IF ~Falsy(Get(payload, "slug")) THEN payload["slug"]
  ELSE IF ~Falsy(slugifyName(Get(payload, "name")))
    THEN slugifyName(Get(payload, "name"))
  ELSE <<"m", "a", "t", "e", "r", "i", "a", "l", "-">> \o Now

\* the predicate of brands.find in the materials route
IsBrand(b, brandId) ==
  \/ Get(b, "uuid") = brandId
  \/ Get(b, "slug") = brandId
  \/ IsString(Get(b, "__file")) /\ StripYamlExt(b["__file"]) = brandId
  \/ slugifyName(Get(b, "name")) = brandId

\* brands.find(...): the index of the first brand the predicate holds of, 0
\* for undefined
FindBrand(brands, brandId) ==
  LET found == {i \in 1..Len(brands) : IsBrand(brands[i], brandId)}
  IN  IF found = {} THEN 0 ELSE CHOOSE i \in found : \A j \in found : i <= j

\* generateMaterialUuid(brandUuid, name) and generateMaterialPackageUuid(
\* brandUuid, gtin): a deterministic identifier from the uuid of the parent
\* and a discriminating value
generateUuid(brandUuid, value) == brandUuid \o <<"/">> \o value

\* the record of the route; of the fields it copies from the payload, class
\* stands for all
newMaterial(uuid, slug, brandId, payload) ==
  LET record == [uuid |-> uuid, slug |-> slug, brand |-> [slug |-> brandId],
                 name |-> payload["name"]]
  IN  IF Falsy(Get(payload, "class")) THEN record
      ELSE record @@ [class |-> payload["class"]]

\* what a route has decided when it comes to its fs.writeFile: the
\* directories as its calls have left them, the subdirectory (JNull for the
\* directory of the containers), the slug and the record to write; or the
\* answer it has returned, result being NoResult as long as it has not
Plan(d, n, r, path, slug, doc, res) ==
  [dir |-> d, nested |-> n, roots |-> r, path |-> path, slug |-> slug,
   doc |-> doc, result |-> res]

Answer(d, n, r, res) == Plan(d, n, r, JNull, << >>, EmptyDoc, res)

\* the materials route once findBrandDirForNestedEntity has ended with o
MaterialInDir(d, o, brand, brandId, payload) ==
  IF o.threw THEN Answer(d, o.nested, o.roots, FilesystemError)
  ELSE IF o.path = JNull
    THEN Answer(d, o.nested, o.roots,
           ErrorResult(brandId,
                       "Could not find or create materials directory", 500))
  ELSE
    LET slug == UniqueSlug(
                  existingSlugs(
                    readAllNestedAcrossBrands(o.nested, MaterialsName, NoOpts)),
                  MaterialBaseSlug(payload))
    IN  Plan(d, o.nested, o.roots, o.path, slug,
             newMaterial(generateUuid(brand["uuid"], payload["name"]), slug,
                         brandId, payload),
             NoResult)

\* POST /api/brands/$brandId/materials/new up to its fs.writeFile
PlanMaterial(d, n, r, brandId, payload) ==
  LET brands == readAllEntities(d, BrandsName, NoOpts)
      brand == FindBrand(brands.docs, brandId)
  IN  IF Falsy(Get(payload, "name"))
        THEN {Answer(d, n, r,
                ErrorResult(<< >>, "Material name is required", 400))}
      ELSE IF brands.kind # "docs"
        THEN {Answer(d, n, r, ErrorResult(<< >>, "Failed to load brands", 500))}
      ELSE IF brand = 0 \/ Falsy(Get(brands.docs[brand], "uuid"))
        THEN {Answer(d, n, r, BrandMissing(brandId))}
      ELSE {MaterialInDir(d, o, brands.docs[brand], brandId, payload) :
              o \in findBrandDirCreate(d, n, r, brandId, TRUE)}

AlreadyExists(what) ==
  ErrorResult(what, " with this slug already exists", 409)

\* payload.slug || slugifyName(payload.name)
ContainerSlug(payload) ==
  IF ~Falsy(Get(payload, "slug")) THEN payload["slug"]
  ELSE slugifyName(Get(payload, "name"))

newContainer(uuid, slug, payload) ==
  [uuid |-> uuid, slug |-> slug, class |-> payload["class"],
   name |-> payload["name"]]

\* a route that does not look whether the file is there
ContainerInDir_NoAccess(cd, n, r, payload, uuid) ==
  Plan(cd, n, r, JNull, ContainerSlug(payload),
       newContainer(uuid, ContainerSlug(payload), payload), NoResult)

\* the containers route once findEntityDir has returned a directory, whose
\* content is cd
ContainerInDir(cd, n, r, payload, uuid) ==
  LET slug == ContainerSlug(payload)
  IN  IF Falsy(slug)
        THEN Answer(cd, n, r,
               ErrorResult(<< >>, "Could not generate slug from name", 400))
      ELSE IF KindOf(cd, slug \o ExtYaml) # "missing"
        THEN Answer(cd, n, r,
               AlreadyExists(<<"C", "o", "n", "t", "a", "i", "n", "e", "r">>))
      ELSE Plan(cd, n, r, JNull, slug, newContainer(uuid, slug, payload),
                NoResult)

\* POST /api/containers/new up to its fs.writeFile, uuid being what
\* uuidv4() returns
PlanContainer(d, n, r, payload, uuid) ==
  LET out == findEntityDir(r, TRUE)
  IN  IF Falsy(Get(payload, "name"))
        THEN {Answer(d, n, r,
                ErrorResult(<< >>, "Container name is required", 400))}
      ELSE IF Falsy(Get(payload, "class"))
        THEN {Answer(d, n, r,
                ErrorResult(<< >>, "Container class is required", 400))}
      ELSE IF out.threw THEN {Answer(d, n, out.roots, FilesystemError)}
      ELSE IF out.root = 0
        THEN {Answer(d, n, out.roots,
                ErrorResult(<< >>,
                  "Could not find or create material containers directory",
                  500))}
      ELSE {ContainerInDir([d EXCEPT !.exists = TRUE], n, out.roots, payload,
                           uuid)}

Unknown == <<"u", "n", "k", "n", "o", "w", "n">>

\* payload.container_slug || 'unknown'
ContainerRef(payload) ==
  IF ~Falsy(Get(payload, "container_slug")) THEN payload["container_slug"]
  ELSE Unknown

\* `${materialRef}-${containerRef}`
PackageRefs(payload) ==
  payload["material_slug"] \o <<"-">> \o ContainerRef(payload)

\* payload.slug || `${materialRef}-${containerRef}`.toLowerCase()
PackageSlug(payload) ==
  IF ~Falsy(Get(payload, "slug")) THEN payload["slug"]
  ELSE toLowerCase(PackageRefs(payload))

\* the record of the route; the material and the container are given by
\* material_slug and container_slug
newPackage(uuid, slug, brandId, payload) ==
  [uuid |-> uuid, slug |-> slug, brand |-> [slug |-> brandId],
   class |-> IF Falsy(Get(payload, "class")) THEN <<"F", "F", "F">>
             ELSE payload["class"],
   material |-> payload["material_slug"]]

\* the packages route once findBrandDirForNestedEntity has ended with o
PackageInDir(d, o, brand, brandId, payload) ==
  IF o.threw THEN Answer(d, o.nested, o.roots, FilesystemError)
  ELSE IF o.path = JNull
    THEN Answer(d, o.nested, o.roots,
           ErrorResult(brandId,
             "Could not find or create material packages directory", 500))
  ELSE IF KindOf(DirOf(SubdirOf(o.nested, o.path)),
                 PackageSlug(payload) \o ExtYaml) # "missing"
    THEN Answer(d, o.nested, o.roots,
           AlreadyExists(<<"P", "a", "c", "k", "a", "g", "e">>))
  ELSE Plan(d, o.nested, o.roots, o.path, PackageSlug(payload),
            newPackage(generateUuid(brand["uuid"], PackageRefs(payload)),
                       PackageSlug(payload), brandId, payload),
            NoResult)

\* POST /api/brands/$brandId/packages/new up to its fs.writeFile
PlanPackage(d, n, r, brandId, payload) ==
  LET brand == readSingleEntity(d, BrandsName, brandId)
  IN  IF Falsy(Get(payload, "material_slug"))
        THEN {Answer(d, n, r, ErrorResult(<< >>, "Material is required", 400))}
      ELSE IF brand.kind # "doc" \/ Falsy(Get(brand.doc, "uuid"))
        THEN {Answer(d, n, r, BrandMissing(brandId))}
      ELSE {PackageInDir(d, o, brand.doc, brandId, payload) :
              o \in findBrandDirCreate(d, n, r, brandId, TRUE)}

\* the end of a route: stringifyYaml and fs.writeFile of `{slug}.yaml` in
\* the directories as they are at that time, then the answer (201 for a
\* container); a failure is answered by the catch block
WriteRecord(d, n, r, path, slug, doc) ==
  LET written == TryUpdate(IF path = JNull THEN d
                           ELSE DirOf(SubdirOf(n, path)),
                           slug \o ExtYaml, doc)
  IN  IF written = {} THEN {CreateOutcome(d, n, r, FilesystemError)}
      ELSE IF path = JNull
        THEN {CreateOutcome(w.dir, n, r, CreatedResult(doc, slug, path, 201)) :
                w \in written}
      ELSE {CreateOutcome(d, PutSubdir(n, path, w.dir), r,
                          CreatedResult(doc, slug, path, 200)) : w \in written}

\* a route run on its own: nothing happens between its calls
Finish(plans) ==
  UNION {IF p.result # NoResult
           THEN {CreateOutcome(p.dir, p.nested, p.roots, p.result)}
         ELSE WriteRecord(p.dir, p.nested, p.roots, p.path, p.slug, p.doc) :
           p \in plans}

createMaterial(d, n, r, brandId, payload) ==
  Finish(PlanMaterial(d, n, r, brandId, payload))

createContainer(d, n, r, payload, uuid) ==
  Finish(PlanContainer(d, n, r, payload, uuid))

createPackage(d, n, r, brandId, payload) ==
  Finish(PlanPackage(d, n, r, brandId, payload))

----------------------------------------------------------------------------
(* Specification: the suffix search of the materials route on the slugs of *)
(* the materials under the nested root.                                    *)

SlugA2 == Suffixed(sA, 2)

SlugA3 == Suffixed(sA, 3)

SearchDocs == {[slug |-> sA], [slug |-> SlugA2], [slug |-> SlugA3],
               [slug |-> sB], [name |-> <<"A">>]}

SearchListings ==
  {l \in UNION {[1..k -> {[name |-> f, kind |-> "file",
                           text |-> stringifyYaml(doc)] :
                            f \in {FileAYaml, FileBUpperYml},
                            doc \in SearchDocs}] : k \in 0..MaxMaterials} :
     DistinctNames(l)}

SearchRoots ==
  {[exists |-> TRUE, subdirs |-> ss] :
     ss \in {l \in UNION {[1..k -> {[name |-> b, kind |-> "dir",
                                     entries |-> es] :
                                      b \in BrandIds, es \in SearchListings}] :
                            k \in {c \in 0..MaxSubdirs :
                                     c <= Cardinality(BrandIds)}} :
               DistinctNames(l) /\ FilesIn(l) <= MaxMaterials}}

BaseSlugs == {sA, sB, SlugA2}

InitSearch ==
  /\ dir = [exists |-> FALSE, entries |-> << >>]
  /\ nested \in SearchRoots
  /\ roots = LocatedRoots
  /\ lookup = NoLookup
  /\ op = NoOp
  /\ pre = dir
  /\ preNested = nested
  /\ preRoots = roots
  /\ result = NoResult
  /\ calls = NoCalls
  /\ category = MaterialsName

\* lines 85 to 108 of the materials route: the slug chosen for baseSlug
ChooseSlug ==
  /\ op = NoOp
  /\ \E baseSlug \in BaseSlugs :
       /\ op' = [NoOp EXCEPT !.name = "chooseSlug", !.input = baseSlug]
       /\ result' = TextResult(
            UniqueSlug(
              existingSlugs(
                readAllNestedAcrossBrands(nested, MaterialsName, NoOpts)),
              baseSlug))
  /\ Snapshot
  /\ UNCHANGED <<dir, nested, roots, lookup>>

NextSearch == ChooseSlug \/ Return

SpecSearch == InitSearch /\ [][NextSearch]_vars

----------------------------------------------------------------------------
(* C23 *)

\* the slug fields of all the materials under the root, whatever the brand
SlugFields(n) ==
  {parseYaml(n.subdirs[i].entries[j].text)["slug"] :
     <<i, j>> \in {p \in (1..Len(n.subdirs)) \X (1..MaxMaterials + 1) :
                     /\ p[2] <= Len(n.subdirs[p[1]].entries)
                     /\ "slug" \in DOMAIN
                          parseYaml(n.subdirs[p[1]].entries[p[2]].text)}}

\* the suffixes the search can come to: one more than there are slugs
Suffixes(n) == 2..(Cardinality(SlugFields(n)) + 2)

\* C23: with S the slug fields of all existing materials across all parents
\* and b the base slug, the suffix search ends and picks b when b is not in
\* S, and otherwise `b-k` for the smallest k >= 2 with `b-k` not in S; the
\* slug it picks is never in S.
C23_SmallestFreeSuffix ==
  op.name = "chooseSlug" =>
    /\ result.text \notin SlugFields(nested)
    /\ op.input \notin SlugFields(nested) => result.text = op.input
    /\ op.input \in SlugFields(nested) =>
         \E k \in Suffixes(nested) :
           /\ result.text = Suffixed(op.input, k)
           /\ \A j \in 2..(k - 1) : Suffixed(op.input, j) \in SlugFields(nested)

\* the base slug and its first suffix are taken: the search picks `b-3`
C23_Witness ==
  /\ op.name = "chooseSlug"
  /\ {op.input, Suffixed(op.input, 2)} \subseteq SlugFields(nested)
  /\ result.text = Suffixed(op.input, 3)

----------------------------------------------------------------------------
(* Specification: the creation routes run one at a time, each on the       *)
(* directories of its entity type, together with the writes of the Record  *)
(* Service on the same directories.  The directories of the type start     *)
(* empty or not located; a route is not started once MaxRecords files are  *)
(* there.                                                                  *)

MaxRecords == 2

MaxParents == 2

sU == <<"u">>

sV == <<"v">>

CreateBrandIds == {sA, sB, sU}

\* brands whose file stem, slug, name and uuid differ from one another, and
\* a brand without uuid
CreateBrands ==
  {[slug |-> sB, uuid |-> sU], [slug |-> sA, uuid |-> sV],
   [name |-> <<"B">>, uuid |-> sU], [slug |-> sB]}

CreateBrandDirs ==
  {[exists |-> TRUE, entries |-> es] :
     es \in {l \in UNION {[1..k -> {[name |-> f, kind |-> "file",
                                     text |-> stringifyYaml(doc)] :
                                      f \in {FileAYaml, FileBUpperYml},
                                      doc \in CreateBrands}] :
                            k \in 0..MaxParents} :
               DistinctNames(l)}}
  \cup {[exists |-> FALSE, entries |-> << >>]}

\* the root of the nested type at the start: not located, empty, or holding
\* a regular file that has the name of a brand
CreateRoots ==
  {NoNested, [exists |-> TRUE, subdirs |-> << >>],
   [exists |-> TRUE,
    subdirs |-> <<[name |-> sB, kind |-> "file", entries |-> << >>]>>]}

MaterialPayloads ==
  {EmptyDoc, [name |-> <<"A">>], [name |-> <<"!">>],
   [name |-> <<"A">>, slug |-> sB]}

ContainerPayloads ==
  {EmptyDoc, [name |-> <<"A">>], [name |-> <<"A">>, class |-> <<"x">>],
   [name |-> <<"!">>, class |-> <<"x">>],
   [name |-> <<"A">>, class |-> <<"x">>, slug |-> sB]}

PackagePayloads ==
  {EmptyDoc, [material_slug |-> <<"A">>],
   [material_slug |-> <<"A">>, container_slug |-> <<"S">>],
   [material_slug |-> <<"A">>, slug |-> sA],
   [material_slug |-> <<"A">>, slug |-> sB]}

\* what uuidv4() can return
Uuids4 == {<<"1">>, <<"2">>}

InitCreate ==
  /\ \/ /\ category = ContainersName
        /\ nested = NoNested
        /\ \/ dir = [exists |-> TRUE, entries |-> << >>] /\ roots = LocatedRoots
           \/ dir = [exists |-> FALSE, entries |-> << >>]
              /\ roots \in RootsOf(NoNested)
     \/ /\ category \in {MaterialsName, PackagesName}
        /\ dir \in CreateBrandDirs
        /\ nested \in CreateRoots
        /\ roots \in RootsOf(nested)
  /\ lookup = NoLookup
  /\ op = NoOp
  /\ pre = dir
  /\ preNested = nested
  /\ preRoots = roots
  /\ result = NoResult
  /\ calls = NoCalls

CreateMaterial ==
  /\ op = NoOp
  /\ category = MaterialsName
  /\ FilesIn(nested.subdirs) < MaxRecords
  /\ \E brandId \in CreateBrandIds, payload \in MaterialPayloads :
       \E out \in createMaterial(dir, nested, roots, brandId, payload) :
         /\ op' = [NoOp EXCEPT !.name = "createMaterial",
                               !.brandId = brandId, !.newValue = payload]
         /\ nested' = out.nested
         /\ roots' = out.roots
         /\ result' = out.result
  /\ Snapshot
  /\ UNCHANGED <<dir, lookup>>

CreateContainer ==
  /\ op = NoOp
  /\ category = ContainersName
  /\ Len(dir.entries) < MaxRecords
  /\ \E payload \in ContainerPayloads, uuid \in Uuids4 :
       \E out \in createContainer(dir, nested, roots, payload, uuid) :
         /\ op' = [NoOp EXCEPT !.name = "createContainer",
                               !.newValue = payload]
         /\ dir' = out.dir
         /\ roots' = out.roots
         /\ result' = out.result
  /\ Snapshot
  /\ UNCHANGED <<nested, lookup>>

CreatePackage ==
  /\ op = NoOp
  /\ category = PackagesName
  /\ FilesIn(nested.subdirs) < MaxRecords
  /\ \E brandId \in CreateBrandIds, payload \in PackagePayloads :
       \E out \in createPackage(dir, nested, roots, brandId, payload) :
         /\ op' = [NoOp EXCEPT !.name = "createPackage",
                               !.brandId = brandId, !.newValue = payload]
         /\ nested' = out.nested
         /\ roots' = out.roots
         /\ result' = out.result
  /\ Snapshot
  /\ UNCHANGED <<dir, lookup>>

\* PUT of a container
WriteContainer == category = ContainersName /\ WriteSingleEntity

\* PUT of a material or of a package
WriteNested ==
  category \in {MaterialsName, PackagesName} /\ WriteNestedByBrand

NextCreate ==
  \/ CreateMaterial
  \/ CreateContainer
  \/ CreatePackage
  \/ WriteContainer
  \/ WriteNested
  \/ Return

SpecCreate == InitCreate /\ [][NextCreate]_vars

----------------------------------------------------------------------------
(* C24 *)

Creations == {"createMaterial", "createContainer", "createPackage"}

Created == op.name \in Creations /\ result.kind = "created"

\* no two of the documents have the same slug
UniqueSlugs(docs) ==
  \A i, j \in 1..Len(docs) :
    (i # j /\ "slug" \in DOMAIN docs[i] /\ "slug" \in DOMAIN docs[j])
      => docs[i]["slug"] # docs[j]["slug"]

\* slugs are unique within the category: among the containers, among the
\* materials of all brands, among the packages of each brand
UniqueInCategory(d, n) ==
  IF category = ContainersName THEN UniqueSlugs(getEntityFiles(d, NoOpts))
  ELSE IF category = MaterialsName
    THEN UniqueSlugs(ReadSubdirs(n.subdirs, NoOpts))
  ELSE \A i \in 1..Len(n.subdirs) :
         UniqueSlugs(getEntityFiles(DirOf(n.subdirs[i]), NoOpts))

\* every file with a slug is named `{slug}.yaml`
NamedBySlug(d) ==
  \A i \in 1..Len(d.entries) :
    "slug" \in DOMAIN parseYaml(d.entries[i].text)
      => d.entries[i].name = parseYaml(d.entries[i].text)["slug"] \o ExtYaml

AllNamedBySlug(d, n) ==
  IF category = ContainersName THEN NamedBySlug(d)
  ELSE \A i \in 1..Len(n.subdirs) : NamedBySlug(DirOf(n.subdirs[i]))

\* C24: slug uniqueness within a category (materials across all brands,
\* containers, packages of one brand) is kept by every creation request
\* run on its own: when the slugs are unique before the request they are
\* unique after it.
C24_CreationKeepsSlugsUnique ==
  (op.name \in Creations /\ UniqueInCategory(pre, preNested))
    => UniqueInCategory(dir, nested)

\* the materials route keeps the slugs unique whatever the files are named,
\* the two other routes when every record is in the file named by its slug
C24_UniqueForMaterialsOrNamedBySlug ==
  (/\ op.name \in Creations
   /\ UniqueInCategory(pre, preNested)
   /\ op.name = "createMaterial" \/ AllNamedBySlug(pre, preNested))
    => UniqueInCategory(dir, nested)

\* a container was created with the slug that the record of another file
\* already has
C24_TwoContainersOneSlug ==
  /\ op.name = "createContainer" /\ result.kind = "created"
  /\ UniqueInCategory(pre, preNested)
  /\ ~UniqueInCategory(dir, nested)

C24_TwoPackagesOneSlug ==
  /\ op.name = "createPackage" /\ result.kind = "created"
  /\ UniqueInCategory(pre, preNested)
  /\ ~UniqueInCategory(dir, nested)

----------------------------------------------------------------------------
(* C25 *)

\* the directory the route wrote into, before and after the request
TargetBefore ==
  IF op.name = "createContainer" THEN pre
  ELSE IF IsSubdir(preNested, result.path)
    THEN DirOf(SubdirOf(preNested, result.path))
  ELSE [exists |-> FALSE, entries |-> << >>]

TargetAfter ==
  IF op.name = "createContainer" THEN dir
  ELSE DirOf(SubdirOf(nested, result.path))

\* the files of the other subdirectories are as they were
OtherSubdirsKept ==
  \A i \in 1..Len(preNested.subdirs) :
    preNested.subdirs[i].name # result.path
      => /\ preNested.subdirs[i].name \in SubNames(nested)
         /\ SubdirOf(nested, preNested.subdirs[i].name) = preNested.subdirs[i]

\* C25: a creation request run on its own never overwrites an existing
\* record: when it answers success the file it wrote did not exist before
\* and every file that existed is unchanged.
C25_CreationNeverOverwrites ==
  Created =>
    /\ (result.text \o ExtYaml) \notin Names(TargetBefore)
    /\ \A f \in Names(TargetBefore) :
         f \in Names(TargetAfter)
           /\ EntryOf(TargetAfter, f) = EntryOf(TargetBefore, f)
    /\ op.name # "createContainer" => OtherSubdirsKept

\* the claim holds of the containers and of the packages, and of a material
\* whose file name is free
C25_ContainersAndPackagesNeverOverwrite ==
  (Created /\ (op.name # "createMaterial"
               \/ (result.text \o ExtYaml) \notin Names(TargetBefore))) =>
    /\ (result.text \o ExtYaml) \notin Names(TargetBefore)
    /\ \A f \in Names(TargetBefore) :
         f \in Names(TargetAfter)
           /\ EntryOf(TargetAfter, f) = EntryOf(TargetBefore, f)
    /\ op.name # "createContainer" => OtherSubdirsKept

\* a name that is taken answers 409 and nothing is written
C25_TakenNameAnswers409 ==
  (op.name \in {"createContainer", "createPackage"}
     /\ result.kind = "error" /\ result.status = 409)
    => dir.entries = pre.entries /\ nested.subdirs = preNested.subdirs

\* the materials route answered success and the record that was in the file
\* is gone
C25_MaterialOverwritten ==
  /\ op.name = "createMaterial" /\ result.kind = "created"
  /\ (result.text \o ExtYaml) \in Names(TargetBefore)
  /\ EntryOf(TargetBefore, result.text \o ExtYaml).text
       # EntryOf(TargetAfter, result.text \o ExtYaml).text

C25_Answered409 ==
  /\ op.name \in {"createContainer", "createPackage"}
  /\ result.kind = "error" /\ result.status = 409

----------------------------------------------------------------------------
(* C28 *)

\* the brand the materials route took the uuid from
SeedBrand == getEntityFiles(pre, NoOpts)[FindBrand(getEntityFiles(pre, NoOpts),
                                                   op.brandId)]

\* C28: a material creation resolves one parent brand throughout: the brand
\* whose uuid seeds the uuid of the material is the brand whose canonical
\* slug names the directory written into, or that directory is the literal
\* directory of the identifier, and the brand.slug persisted in the record
\* is the name of that directory.
C28_OneBrandThroughout ==
  (op.name = "createMaterial" /\ result.kind = "created") =>
    /\ result.doc["uuid"]
         = generateUuid(SeedBrand["uuid"], op.newValue["name"])
    /\ \/ BrandSlug(SeedBrand) = result.path
       \/ result.path = op.brandId /\ IsSubdir(preNested, op.brandId)
    /\ parseYaml(EntryOf(TargetAfter, result.text \o ExtYaml).text)["brand"].slug
         = result.path

\* the claim holds of the requests whose identifier is the name of the
\* directory written into and the canonical slug of the brand found
C28_HoldsWhenIdentifierNamesDirectory ==
  (/\ op.name = "createMaterial" /\ result.kind = "created"
   /\ op.brandId = result.path
   /\ BrandSlug(SeedBrand) = op.brandId) =>
    /\ result.doc["uuid"]
         = generateUuid(SeedBrand["uuid"], op.newValue["name"])
    /\ parseYaml(EntryOf(TargetAfter, result.text \o ExtYaml).text)["brand"].slug
         = result.path

\* the record is in the directory of the brand's slug and its brand.slug is
\* the file stem the caller gave
C28_StoredSlugIsNotTheDirectory ==
  /\ op.name = "createMaterial" /\ result.kind = "created"
  /\ BrandSlug(SeedBrand) = result.path
  /\ result.doc["brand"].slug # result.path

\* the uuid is seeded by one brand and the record is in the directory of
\* another
C28_SeedIsAnotherBrand ==
  /\ op.name = "createMaterial" /\ result.kind = "created"
  /\ ~IsSubdir(preNested, op.brandId)
  /\ BrandSlug(SeedBrand) # result.path
  /\ \E i \in 1..Len(pre.entries) :
       /\ BrandSlug(parseYaml(pre.entries[i].text)) = result.path
       /\ Get(parseYaml(pre.entries[i].text), "uuid") # SeedBrand["uuid"]

----------------------------------------------------------------------------
(* Specification: two creation requests of one route in progress at once,  *)
(* with the same name and, for the nested types, the same brand.  A route  *)
(* decides on its slug and file from what it reads, and writes the file in *)
(* a later call: the other request may run between the two.  The reads of  *)
(* a route are taken as one step.  calls[p].seen is the number of files    *)
(* written by the requests when request p made its decision, calls[p].at   *)
(* the rank of its own write.                                              *)

NewRequest(brandId, payload, uuid) ==
  [brandId |-> brandId, payload |-> payload, uuid |-> uuid, pc |-> "plan",
   path |-> JNull, slug |-> << >>, doc |-> EmptyDoc, seen |-> 0, at |-> 0,
   result |-> NoResult]

\* the route of the category up to its fs.writeFile
PlanOf(c) ==
  IF category = ContainersName
    THEN PlanContainer(dir, nested, roots, c.payload, c.uuid)
  ELSE IF category = MaterialsName
    THEN PlanMaterial(dir, nested, roots, c.brandId, c.payload)
  ELSE PlanPackage(dir, nested, roots, c.brandId, c.payload)

\* a request reads the directories, makes the ones that are missing and
\* decides on its slug, or answers with an error
PlanRecord(p) ==
  /\ calls[p].pc = "plan"
  /\ \E plan \in PlanOf(calls[p]) :
       /\ dir' = plan.dir
       /\ nested' = plan.nested
       /\ roots' = plan.roots
       /\ calls' = [calls EXCEPT ![p] =
            IF plan.result # NoResult
              THEN [@ EXCEPT !.pc = "done", !.result = plan.result]
            ELSE [@ EXCEPT !.pc = "write", !.path = plan.path,
                           !.slug = plan.slug, !.doc = plan.doc,
                           !.seen = Stamp(calls) - 1]]
  /\ UNCHANGED <<lookup, op, pre, preNested, preRoots, result, category>>

\* a request writes its file and answers
WritePlanned(p) ==
  /\ calls[p].pc = "write"
  /\ \E out \in WriteRecord(dir, nested, roots, calls[p].path, calls[p].slug,
                            calls[p].doc) :
       /\ dir' = out.dir
       /\ nested' = out.nested
       /\ calls' = [calls EXCEPT ![p] =
            [@ EXCEPT !.pc = "done", !.result = out.result,
                      !.at = IF out.result.kind = "created" THEN Stamp(calls)
                             ELSE 0]]
  /\ UNCHANGED <<roots, lookup, op, pre, preNested, preRoots, result,
                 category>>

ClassX == <<"x">>

ClassY == <<"y">>

\* two requests that differ in a field the route copies
RacingRequests ==
  IF category = ContainersName
    THEN {<<NewRequest(<< >>, [name |-> <<"A">>, class |-> ClassX], <<"1">>),
            NewRequest(<< >>, [name |-> <<"A">>, class |-> ClassY], <<"2">>)>>}
  ELSE IF category = MaterialsName
    THEN {<<NewRequest(b, [name |-> <<"A">>, class |-> ClassX], << >>),
            NewRequest(b, [name |-> <<"A">>, class |-> ClassY], << >>)>> :
            b \in CreateBrandIds}
  ELSE {<<NewRequest(b, [material_slug |-> <<"A">>, class |-> ClassX], << >>),
          NewRequest(b, [material_slug |-> <<"A">>, class |-> ClassY], << >>)>> :
          b \in CreateBrandIds}

\* the directories of the type hold one record named a.yaml or none
RacingDirs ==
  {[exists |-> TRUE, entries |-> << >>],
   [exists |-> TRUE,
    entries |-> <<[name |-> FileAYaml, kind |-> "file",
                   text |-> stringifyYaml([slug |-> sA])]>>]}

RacingRoots ==
  CreateRoots
  \cup {[exists |-> TRUE,
         subdirs |-> <<[name |-> b, kind |-> "dir", entries |-> d.entries]>>] :
          b \in BrandIds, d \in RacingDirs}

InitRace ==
  /\ \/ /\ category = ContainersName
        /\ nested = NoNested
        /\ \/ dir \in RacingDirs /\ roots = LocatedRoots
           \/ dir = [exists |-> FALSE, entries |-> << >>]
              /\ roots \in RootsOf(NoNested)
     \/ /\ category \in {MaterialsName, PackagesName}
        /\ dir \in CreateBrandDirs
        /\ nested \in RacingRoots
        /\ roots \in RootsOf(nested)
  /\ lookup = NoLookup
  /\ op = NoOp
  /\ pre = dir
  /\ preNested = nested
  /\ preRoots = roots
  /\ result = NoResult
  /\ calls \in RacingRequests

NextRace == \E p \in DOMAIN calls : PlanRecord(p) \/ WritePlanned(p)

SpecRace == InitRace /\ [][NextRace]_vars

----------------------------------------------------------------------------
(* C21 *)

BothCreated ==
  /\ BothDone
  /\ \A p \in DOMAIN calls : calls[p].result.kind = "created"

\* both requests decided before either had written: both saw the slug free
BothSawSlugFree == \A p \in DOMAIN calls : calls[p].seen = 0

SameFile == calls[1].slug = calls[2].slug /\ calls[1].path = calls[2].path

\* the directory the requests wrote into, at the start and now
RaceBefore ==
  IF category = ContainersName THEN pre
  ELSE IF IsSubdir(preNested, calls[1].path)
    THEN DirOf(SubdirOf(preNested, calls[1].path))
  ELSE [exists |-> FALSE, entries |-> << >>]

RaceAfter ==
  IF category = ContainersName THEN dir
  ELSE DirOf(SubdirOf(nested, calls[1].path))

\* the request whose write came last
LastCreated == CHOOSE p \in DOMAIN calls : calls[p].at = Len(calls)

\* both requests came to their fs.writeFile
BothPlanned == \A p \in DOMAIN calls : calls[p].doc # EmptyDoc

\* C21: the race on creation is there.  Two concurrent creation requests
\* with the same base name (and the same brand, for the nested types) that
\* both observe the slug as free both choose the same slug and the same
\* file and both answer success, and the file holds the record of the last
\* writer only: one file was added for the two requests.  Two requests that
\* both answer success wrote the same file in this interleaving only.
C21_BothSucceedLastWriterStays ==
  /\ (BothDone /\ BothPlanned /\ BothSawSlugFree) =>
       /\ BothCreated
       /\ SameFile
       /\ Names(RaceAfter)
            = Names(RaceBefore) \cup {calls[1].slug \o ExtYaml}
       /\ EntryOf(RaceAfter, calls[1].slug \o ExtYaml).text
            = stringifyYaml(calls[LastCreated].doc)
  /\ (BothCreated /\ SameFile) => BothSawSlugFree

\* both requests have answered success, the request that decided first
\* wrote last and the record of the other request is in no file
C21_Witness ==
  /\ BothCreated /\ BothSawSlugFree /\ SameFile
  /\ category = MaterialsName
  /\ calls[1].at = 2
  /\ calls[1].doc # calls[2].doc
  /\ \A f \in Names(RaceAfter) :
       EntryOf(RaceAfter, f).text # stringifyYaml(calls[2].doc)

C21_ContainerWitness ==
  /\ BothCreated /\ BothSawSlugFree /\ SameFile
  /\ category = ContainersName
  /\ calls[2].at = 2
  /\ \A f \in Names(RaceAfter) :
       EntryOf(RaceAfter, f).text # stringifyYaml(calls[1].doc)

C21_PackageWitness ==
  /\ BothCreated /\ BothSawSlugFree /\ SameFile
  /\ category = PackagesName
  /\ calls[2].at = 2
  /\ \A f \in Names(RaceAfter) :
       EntryOf(RaceAfter, f).text # stringifyYaml(calls[1].doc)

====
